---- MODULE Spec2Model ----
(***************************************************************************)
(* Model of the bulk batch-processing loops, the label replace operation,  *)
(* delete_emails_by_query and the auto-labeling rule runner of             *)
(* src/index.js (GmailMCPServer).                                          *)
(*                                                                         *)
(* The remote mailbox (googleapis gmail client) is the environment: every  *)
(* remote call either succeeds or throws, chosen nondeterministically.     *)
(***************************************************************************)
EXTENDS Integers, Sequences, FiniteSets, TLC

VARIABLES
  tool,      \* name of the tool call being executed
  pc,        \* position inside the running handler
  args,      \* argument object of the tool call
  mbox,      \* state of the remote mailbox
  loc,       \* local variables of the running handler
  out,       \* payload returned by the handler
  calls,     \* remote calls observed at the mailbox client (history)
  ruleFile   \* content of auto-labeling-rules.json (the rules array)

vars == <<tool, pc, args, mbox, loc, out, calls, ruleFile>>

(***************************************************************************)
(* Bounds of the model                                                     *)
(***************************************************************************)
MaxMsgs == 12        \* messages matching the query of a bulk tool
ShortPage == 5       \* size of a page the mailbox returns short
MaxLabelled == 2     \* messages whose label list is enumerated freely

(***************************************************************************)
(* Generic helpers                                                         *)
(***************************************************************************)
Min(a, b) == IF a < b THEN a ELSE b
Max(a, b) == IF a > b THEN a ELSE b
\* Math.ceil(a / b) for a >= 0, b > 0
Ceil(a, b) == (a + b - 1) \div b
\* Math.floor(a / b) for a >= 0, b > 0
Floor(a, b) == a \div b

Undefined == -2      \* an argument that was not supplied
NoToken == -1        \* nextPageToken absent (undefined / null)

RECURSIVE SumCount(_)
SumCount(es) == IF es = <<>> THEN 0 ELSE Head(es).count + SumCount(Tail(es))

Includes(s, x) == \E i \in 1..Len(s) : s[i] = x

\* Array.prototype.flat() on an array of arrays
RECURSIVE Flat(_)
Flat(ss) == IF ss = <<>> THEN <<>> ELSE Head(ss) \o Flat(Tail(ss))

\* [...new Set(s)] : duplicates dropped, first occurrences kept in order
RECURSIVE DedupeFrom(_, _, _)
DedupeFrom(s, i, acc) ==
  IF i > Len(s) THEN acc
  ELSE DedupeFrom(s, i + 1, IF Includes(acc, s[i]) THEN acc ELSE Append(acc, s[i]))
Dedupe(s) == DedupeFrom(s, 1, <<>>)

(***************************************************************************)
(* Labels                                                                  *)
(***************************************************************************)
\* mutant: UNREAD missing from the system label list
systemLabels_NoUnread ==
  <<"INBOX", "SENT", "DRAFT", "SPAM", "TRASH", "IMPORTANT", "STARRED">>

systemLabels ==
  <<"INBOX", "SENT", "DRAFT", "SPAM", "TRASH", "IMPORTANT", "STARRED", "UNREAD">>

\* currentLabels.filter(labelId => !systemLabels.includes(labelId))
UserLabelsOnly(labelIds) ==
  SelectSeq(labelIds, LAMBDA l : ~Includes(systemLabels, l))

\* label lists a message of the modelled mailbox may carry
LabelLists ==
  { <<>>,
    <<"INBOX", "UNREAD", "Project-X">>,
    <<"Project-X", "Project-Y">>,
    <<"TRASH", "Project-Z", "STARRED">>,
    <<"Project-Y", "SENT", "Project-Y">> }

\* label list of every message that is not enumerated freely
RestLabels == <<"INBOX", "UNREAD", "Project-X">>

\* message.data.labelIds || [] of the message at position i of the listing
LabelsOf(mb, i) ==
  IF i <= Len(mb.labelled) THEN mb.labelled[i] ELSE RestLabels


(***************************************************************************)
(* Remote mailbox: gmail.users.messages.list                               *)
(*                                                                         *)
(* mbox.count    messages that match the query                             *)
(* mbox.estimate the resultSizeEstimate the mailbox reports                *)
(* mbox.full     TRUE: every page is full and carries a token while more   *)
(*               messages remain; FALSE: a page may be short or empty and  *)
(*               the token may be present or absent                        *)
(* A page token is the position in the listing where the next page starts. *)
(***************************************************************************)
ListResponses(mb, pageToken, maxResults) ==
  LET pos == IF pageToken = NoToken THEN 0 ELSE pageToken
      full == Min(maxResults, mb.count - pos)
  IN IF mb.full
     THEN { [from |-> pos, len |-> full,
             nextPageToken |-> IF pos + full < mb.count THEN pos + full ELSE NoToken] }
     ELSE UNION { { [from |-> pos, len |-> k, nextPageToken |-> t] :
                      t \in {NoToken, pos + k} } :
                  k \in {0, Min(ShortPage, full), full} }

\* labelIds of the messages of one page, in page order
RECURSIVE PageLabels(_, _, _)
PageLabels(mb, from, len) ==
  IF len = 0 THEN <<>>
  ELSE Append(PageLabels(mb, from, len - 1), LabelsOf(mb, from + len))

ErrorMessage == "remote call failed"
NoRequest == [kind |-> "none"]

(***************************************************************************)
(* bulk_delete_emails                                                      *)
(***************************************************************************)
\* Math.max(10, Math.min(500, Number(batch_size || 100)))
DeleteBatchSize(batch_size) ==
  Max(10, Min(500, IF batch_size = Undefined \/ batch_size = 0 THEN 100 ELSE batch_size))

\* mutant: the loop stops one page early
DeleteLoopCondition_PageEarly(l) == l.processedCount + l.batchSize < l.totalCount

\* while (processedCount < totalCount)
DeleteLoopCondition(l) == l.processedCount < l.totalCount

\* try block: the bulk call returned
DeleteTry(l, n) == [l EXCEPT !.deletedCount = @ + n]

\* mutant: the failed page is recorded but not counted
DeleteCatch_NotCounted(l, n) ==
  [l EXCEPT !.errors = Append(@, [batch |-> Floor(l.processedCount, l.batchSize) + 1,
                                  error |-> ErrorMessage,
                                  count |-> n])]

\* catch block: the bulk call threw
DeleteCatch(l, n) ==
  [l EXCEPT !.errorCount = @ + n,
            !.errors = Append(@, [batch |-> Floor(l.processedCount, l.batchSize) + 1,
                                  error |-> ErrorMessage,
                                  count |-> n])]

BulkLocals(totalCount, batchSize) ==
  [totalCount |-> totalCount, batchSize |-> batchSize,
   processedCount |-> 0, deletedCount |-> 0, labeledCount |-> 0,
   errorCount |-> 0, errors |-> <<>>, nextPageToken |-> NoToken]

NoLocals == [totalCount |-> 0, batchSize |-> 0,
             processedCount |-> 0, deletedCount |-> 0, labeledCount |-> 0,
             errorCount |-> 0, errors |-> <<>>, nextPageToken |-> NoToken]

NoOutput == [kind |-> "none"]

\* calls.pageLens   messages.length of every page the loop listed
\* calls.bulk       bulk calls issued (batchDelete, batchModify)
\* calls.bulkFailed bulk calls that threw
\* calls.getFailed  pages whose messages.get calls threw
\* calls.okMsgs     messages covered by the bulk calls that returned
\* calls.failedMsgs messages of the pages whose remote calls threw
\* calls.single     per-message mutating calls issued
\* calls.last       the last mutating request sent
NoCalls == [pageLens |-> <<>>, bulk |-> 0, bulkFailed |-> 0, getFailed |-> 0,
            okMsgs |-> 0, failedMsgs |-> 0, single |-> 0, last |-> NoRequest]

toolBulkDeleteEmails ==
  /\ tool = "bulk_delete_emails" /\ pc = "start"
  /\ IF args.query = ""
     THEN /\ pc' = "error"
          /\ out' = [kind |-> "InvalidParams"]
          /\ UNCHANGED <<loc, calls>>
     ELSE \E probeFails \in BOOLEAN :
            LET totalCount == mbox.estimate
                batchSize == DeleteBatchSize(args.batch_size)
            IN IF probeFails
               THEN /\ pc' = "error"
                    /\ out' = [kind |-> "thrown"]
                    /\ UNCHANGED <<loc, calls>>
               ELSE IF totalCount = 0
               THEN /\ pc' = "done"
                    /\ out' = [kind |-> "no_emails_found"]
                    /\ UNCHANGED <<loc, calls>>
               ELSE IF args.dry_run
               THEN /\ pc' = "done"
                    /\ out' = [kind |-> "dry_run", total_estimated |-> totalCount,
                               batch_size |-> batchSize,
                               estimated_batches |-> Ceil(totalCount, batchSize)]
                    /\ UNCHANGED <<loc, calls>>
               ELSE /\ pc' = "loop"
                    /\ loc' = BulkLocals(totalCount, batchSize)
                    /\ UNCHANGED <<out, calls>>
  /\ UNCHANGED <<tool, args, mbox, ruleFile>>

\* one iteration of the while loop
toolBulkDeleteEmailsPage ==
  /\ tool = "bulk_delete_emails" /\ pc = "loop"
  /\ \E listFails \in BOOLEAN :
       IF listFails
       THEN /\ pc' = "error"
            /\ out' = [kind |-> "thrown"]
            /\ UNCHANGED <<loc, calls>>
       ELSE \E r \in ListResponses(mbox, loc.nextPageToken, loc.batchSize) :
              LET l1 == [loc EXCEPT !.nextPageToken = r.nextPageToken]
              IN IF r.len = 0
                 THEN /\ loc' = l1
                      /\ pc' = "return"
                      /\ calls' = [calls EXCEPT !.pageLens = Append(@, 0)]
                      /\ UNCHANGED out
                 ELSE \E callFails \in BOOLEAN :
                        LET l2 == IF callFails THEN DeleteCatch(l1, r.len)
                                               ELSE DeleteTry(l1, r.len)
                            l3 == [l2 EXCEPT !.processedCount = @ + r.len]
                        IN /\ loc' = l3
                           /\ pc' = IF l3.nextPageToken = NoToken
                                       \/ ~DeleteLoopCondition(l3)
                                    THEN "return" ELSE "loop"
                           /\ calls' = [calls EXCEPT
                                 !.pageLens = Append(@, r.len),
                                 !.bulk = @ + 1,
                                 !.bulkFailed = @ + (IF callFails THEN 1 ELSE 0),
                                 !.okMsgs = @ + (IF callFails THEN 0 ELSE r.len),
                                 !.failedMsgs = @ + (IF callFails THEN r.len ELSE 0),
                                 !.last = [kind |-> IF args.permanent THEN "batchDelete"
                                                                      ELSE "batchModify",
                                           from |-> r.from, len |-> r.len,
                                           addLabelIds |-> IF args.permanent THEN <<>>
                                                           ELSE <<"TRASH">>,
                                           removeLabelIds |-> <<>>]]
                           /\ UNCHANGED out
  /\ UNCHANGED <<tool, args, mbox, ruleFile>>

toolBulkDeleteEmailsReturn ==
  /\ tool = "bulk_delete_emails" /\ pc = "return"
  /\ pc' = "done"
  /\ out' = [kind |-> "completed",
             total_processed |-> loc.processedCount,
             successful |-> loc.deletedCount,
             failed |-> loc.errorCount,
             batch_size |-> loc.batchSize,
             batches_processed |-> Ceil(loc.processedCount, loc.batchSize),
             errors |-> loc.errors]
  /\ UNCHANGED <<tool, args, mbox, loc, calls, ruleFile>>


(***************************************************************************)
(* bulk_label_emails                                                       *)
(***************************************************************************)
\* Math.max(10, Math.min(500, Number(batch_size))), batch_size = 100 by default
LabelBatchSize(batch_size) ==
  Max(10, Min(500, IF batch_size = Undefined THEN 100 ELSE batch_size))

\* while (processedCount < totalCount)
LabelLoopCondition(l) == l.processedCount < l.totalCount

\* removeLabelIds of the replace operation for the messages of one page
ReplaceRemoveLabelIds(allCurrentLabels) ==
  Dedupe(UserLabelsOnly(Flat(allCurrentLabels)))

\* modifyRequest.requestBody built for one page
LabelModifyRequest(operation, label_ids, from, len, allCurrentLabels) ==
  [kind |-> "batchModify", from |-> from, len |-> len,
   addLabelIds |-> IF operation \in {"add", "replace"} THEN label_ids ELSE <<>>,
   removeLabelIds |-> IF operation = "remove" THEN label_ids
                      ELSE IF operation = "replace"
                      THEN ReplaceRemoveLabelIds(allCurrentLabels)
                      ELSE <<>>]

\* try block: batchModify returned
LabelTry(l, n) == [l EXCEPT !.labeledCount = @ + n]

\* mutant: the failed page is retried per message and counted as labeled
LabelCatch_Fallback(l, n) ==
  [l EXCEPT !.labeledCount = @ + n]

\* catch block: messages.get or batchModify threw
LabelCatch(l, n) ==
  [l EXCEPT !.errorCount = @ + n,
            !.errors = Append(@, [batch |-> Floor(l.processedCount, l.batchSize) + 1,
                                  error |-> ErrorMessage,
                                  count |-> n])]

toolBulkLabelEmails ==
  /\ tool = "bulk_label_emails" /\ pc = "start"
  /\ IF args.query = "" \/ args.label_ids = <<>>
     THEN /\ pc' = "error"
          /\ out' = [kind |-> "InvalidParams"]
          /\ UNCHANGED <<loc, calls>>
     ELSE \E probeFails \in BOOLEAN :
            LET totalCount == mbox.estimate
                batchSize == LabelBatchSize(args.batch_size)
            IN IF probeFails
               THEN /\ pc' = "error"
                    /\ out' = [kind |-> "thrown"]
                    /\ UNCHANGED <<loc, calls>>
               ELSE IF totalCount = 0
               THEN /\ pc' = "done"
                    /\ out' = [kind |-> "no_emails_found"]
                    /\ UNCHANGED <<loc, calls>>
               ELSE IF args.dry_run
               THEN /\ pc' = "done"
                    /\ out' = [kind |-> "dry_run", total_estimated |-> totalCount,
                               batch_size |-> batchSize,
                               estimated_batches |-> Ceil(totalCount, batchSize)]
                    /\ UNCHANGED <<loc, calls>>
               ELSE /\ pc' = "loop"
                    /\ loc' = BulkLocals(totalCount, batchSize)
                    /\ UNCHANGED <<out, calls>>
  /\ UNCHANGED <<tool, args, mbox, ruleFile>>

\* one iteration of the while loop
toolBulkLabelEmailsPage ==
  /\ tool = "bulk_label_emails" /\ pc = "loop"
  /\ \E listFails \in BOOLEAN :
       IF listFails
       THEN /\ pc' = "error"
            /\ out' = [kind |-> "thrown"]
            /\ UNCHANGED <<loc, calls>>
       ELSE \E r \in ListResponses(mbox, loc.nextPageToken, loc.batchSize) :
              LET l1 == [loc EXCEPT !.nextPageToken = r.nextPageToken]
              IN IF r.len = 0
                 THEN /\ loc' = l1
                      /\ pc' = "return"
                      /\ calls' = [calls EXCEPT !.pageLens = Append(@, 0)]
                      /\ UNCHANGED out
                 ELSE \E getFails \in {args.operation = "replace", FALSE},
                         callFails \in BOOLEAN :
                        LET req == LabelModifyRequest(args.operation, args.label_ids,
                                      r.from, r.len, PageLabels(mbox, r.from, r.len))
                            l2 == IF getFails \/ callFails THEN LabelCatch(l1, r.len)
                                                           ELSE LabelTry(l1, r.len)
                            l3 == [l2 EXCEPT !.processedCount = @ + r.len]
                        IN /\ loc' = l3
                           /\ pc' = IF l3.nextPageToken = NoToken
                                       \/ ~LabelLoopCondition(l3)
                                    THEN "return" ELSE "loop"
                           /\ calls' = [calls EXCEPT
                                 !.pageLens = Append(@, r.len),
                                 !.bulk = @ + (IF getFails THEN 0 ELSE 1),
                                 !.bulkFailed = @ + (IF ~getFails /\ callFails THEN 1 ELSE 0),
                                 !.getFailed = @ + (IF getFails THEN 1 ELSE 0),
                                 !.okMsgs = @ + (IF getFails \/ callFails THEN 0 ELSE r.len),
                                 !.failedMsgs = @ + (IF getFails \/ callFails THEN r.len ELSE 0),
                                 !.last = IF getFails THEN @ ELSE req]
                           /\ UNCHANGED out
  /\ UNCHANGED <<tool, args, mbox, ruleFile>>

toolBulkLabelEmailsReturn ==
  /\ tool = "bulk_label_emails" /\ pc = "return"
  /\ pc' = "done"
  /\ out' = [kind |-> "completed",
             total_processed |-> loc.processedCount,
             successful |-> loc.labeledCount,
             failed |-> loc.errorCount,
             batch_size |-> loc.batchSize,
             batches_processed |-> Ceil(loc.processedCount, loc.batchSize),
             errors |-> loc.errors]
  /\ UNCHANGED <<tool, args, mbox, loc, calls, ruleFile>>

(***************************************************************************)
(* set_email_labels                                                        *)
(***************************************************************************)
\* requestBody of messages.modify
SetLabelsRequest(email_id, label_ids, currentLabels) ==
  [kind |-> "modify", from |-> email_id - 1, len |-> 1,
   addLabelIds |-> label_ids,
   removeLabelIds |-> UserLabelsOnly(currentLabels)]

toolSetEmailLabels ==
  /\ tool = "set_email_labels" /\ pc = "start"
  /\ IF args.email_id = Undefined
     THEN /\ pc' = "error"
          /\ out' = [kind |-> "InvalidParams"]
          /\ UNCHANGED calls
     ELSE \E getFails \in BOOLEAN, callFails \in BOOLEAN :
            LET req == SetLabelsRequest(args.email_id, args.label_ids,
                                        LabelsOf(mbox, args.email_id))
            IN IF getFails \/ args.email_id > mbox.count
               THEN /\ pc' = "error"
                    /\ out' = [kind |-> "thrown"]
                    /\ UNCHANGED calls
               ELSE /\ calls' = [calls EXCEPT
                                   !.single = @ + 1,
                                   !.last = req]
                    /\ IF callFails
                       THEN /\ pc' = "error"
                            /\ out' = [kind |-> "thrown"]
                       ELSE /\ pc' = "done"
                            /\ out' = [kind |-> "set_labels",
                                       new_labels |-> args.label_ids,
                                       removed_labels |-> req.removeLabelIds]
  /\ UNCHANGED <<tool, args, mbox, loc, ruleFile>>

(***************************************************************************)
(* Specification of the bulk tools and of set_email_labels                 *)
(***************************************************************************)
BatchSizeArgs == {Undefined, 5, 12}
LabelIdArgs == { <<"Project-Y">>, <<"INBOX", "Project-X">> }

\* resultSizeEstimate values the mailbox may report for n matching messages
Estimates(n) == {0, 1, n - 1, n, n + 1} \cap Nat

\* label lists of the first messages of the listing
LabelledPrefixes(n) ==
  IF n <= MaxLabelled THEN [1..n -> LabelLists] ELSE { <<>> }

\* the scenario of 250 matching messages read in pages of 100
ScenarioMsgs == {250}

InitBulk ==
  /\ tool \in {"bulk_delete_emails", "bulk_label_emails", "set_email_labels"}
  /\ pc = "start"
  /\ loc = NoLocals
  /\ out = NoOutput
  /\ calls = NoCalls
  /\ ruleFile = <<>>
  /\ \/ /\ tool = "bulk_delete_emails"
        /\ \/ args \in [query : {"is:unread"}, batch_size : BatchSizeArgs,
                        permanent : BOOLEAN, dry_run : BOOLEAN]
           \/ args = [query |-> "", batch_size |-> Undefined,
                      permanent |-> FALSE, dry_run |-> FALSE]
     \/ /\ tool = "bulk_label_emails"
        /\ \/ args \in [query : {"is:unread"}, batch_size : BatchSizeArgs,
                        operation : {"add", "remove", "replace"},
                        label_ids : LabelIdArgs, dry_run : BOOLEAN]
           \/ args \in [query : {"", "is:unread"}, batch_size : {Undefined},
                        operation : {"add"}, label_ids : { <<>> },
                        dry_run : {FALSE}]
     \/ /\ tool = "set_email_labels"
        /\ args \in [email_id : {Undefined} \cup (1..(MaxLabelled + 1)),
                     label_ids : LabelIdArgs]
  /\ LET replaces == \/ tool = "set_email_labels"
                     \/ tool = "bulk_label_emails" /\ args.operation = "replace"
     IN \E n \in (0..MaxMsgs) \cup ScenarioMsgs, f \in BOOLEAN :
          /\ n > MaxMsgs => (f /\ ~replaces /\ args.batch_size = Undefined)
          /\ tool = "set_email_labels" => (f /\ n <= MaxLabelled + 1)
          /\ \E e \in (IF tool = "set_email_labels" THEN {n} ELSE Estimates(n)) :
               \E ls \in (IF replaces THEN LabelledPrefixes(n) ELSE { <<>> }) :
                 mbox = [count |-> n, estimate |-> e, full |-> f, labelled |-> ls]

NextBulk ==
  \/ toolBulkDeleteEmails
  \/ toolBulkDeleteEmailsPage
  \/ toolBulkDeleteEmailsReturn
  \/ toolBulkLabelEmails
  \/ toolBulkLabelEmailsPage
  \/ toolBulkLabelEmailsReturn
  \/ toolSetEmailLabels

SpecBulk == InitBulk /\ [][NextBulk]_vars


(***************************************************************************)
(* Properties of the bulk tools                                            *)
(***************************************************************************)
IsBulkTool == tool \in {"bulk_delete_emails", "bulk_label_emails"}
LastPageLen == IF calls.pageLens = <<>> THEN 0 ELSE calls.pageLens[Len(calls.pageLens)]
SuccessCount == loc.deletedCount + loc.labeledCount

\* C1: the paging loop of bulk_delete_emails and bulk_label_emails is never
\* ended by the probe's resultSizeEstimate: when the loop has ended although
\* its last page was not empty and came with a next page token, no matching
\* message is left unfetched.
C1_EstimateNeverEndsLoop ==
  (IsBulkTool /\ pc = "return" /\ LastPageLen > 0 /\ loc.nextPageToken # NoToken) =>
     loc.processedCount = mbox.count

\* C2: successful + failed == total_processed after every page iteration
\* and in the returned result of both bulk tools.
C2_CountsAddUp ==
  IsBulkTool =>
     /\ SuccessCount + loc.errorCount = loc.processedCount
     /\ out.kind = "completed" =>
          out.successful + out.failed = out.total_processed

C2_Witness ==
  /\ IsBulkTool /\ pc = "done" /\ out.kind = "completed"
  /\ out.successful > 0 /\ out.failed > 0
  /\ Len(calls.pageLens) >= 3

\* C3: a failed page does not abort a bulk run: each failed page leaves
\* exactly one error entry whose count is the page size, the counts of the
\* error entries sum to failed, and every later page reachable through the
\* page tokens is still fetched (when the loop has ended after a non-empty
\* page that came with a token, no matching message is left unfetched).
C3_FailedPageDoesNotEndRun ==
  (IsBulkTool /\ pc = "return" /\ calls.failedMsgs > 0) =>
     /\ Len(loc.errors) = calls.bulkFailed + calls.getFailed
     /\ SumCount(loc.errors) = loc.errorCount
     /\ loc.errorCount = calls.failedMsgs
     /\ (LastPageLen > 0 /\ loc.nextPageToken # NoToken) =>
           loc.processedCount = mbox.count

\* the part of C3 that the code satisfies: the bookkeeping of failed pages
C3_ErrorBookkeeping ==
  IsBulkTool =>
     /\ Len(loc.errors) = calls.bulkFailed + calls.getFailed
     /\ SumCount(loc.errors) = loc.errorCount
     /\ loc.errorCount = calls.failedMsgs

\* C4 as stated: in bulk_label_emails a failed batchModify of a page is
\* followed by one individual retry per message of that page.
C4_FallbackPerMessage ==
  tool = "bulk_label_emails" => calls.single >= calls.failedMsgs

\* C4 amended: in bulk_label_emails a failed batchModify of a page is not
\* retried per message: no per-message call is issued, the whole page is
\* counted in failed and only the pages whose batchModify returned are
\* counted in successful.
C4_NoFallback ==
  tool = "bulk_label_emails" =>
     /\ calls.single = 0
     /\ loc.labeledCount = calls.okMsgs
     /\ loc.errorCount = calls.failedMsgs
     /\ out.kind = "completed" =>
          out.successful = calls.okMsgs /\ out.failed = calls.failedMsgs

C4_Witness ==
  /\ tool = "bulk_label_emails" /\ pc = "done" /\ out.kind = "completed"
  /\ calls.bulkFailed > 0 /\ calls.okMsgs > 0
  /\ out.failed = calls.failedMsgs

\* C6: with full pages, an estimate equal to the number N > 0 of matching
\* messages and no failing call, the bulk tools fetch ceil(N/B) pages, all of
\* size B (the batch size in use) except possibly the last, and report
\* batches_processed = ceil(N/B), total_processed = N, successful = N;
\* 250 messages in batches of 100 give pages of 100, 100 and 50.
C6_FullPagesExactCounts ==
  (/\ IsBulkTool /\ pc = "done" /\ out.kind = "completed"
   /\ mbox.full /\ mbox.estimate = mbox.count /\ out.failed = 0) =>
     LET N == mbox.count
         B == out.batch_size
         p == Ceil(N, B)
     IN /\ Len(calls.pageLens) = p
        /\ \A i \in 1..(p - 1) : calls.pageLens[i] = B
        /\ calls.pageLens[p] = N - (p - 1) * B
        /\ out.batches_processed = p
        /\ out.total_processed = N
        /\ out.successful = N
        /\ (N = 250 /\ B = 100) =>
             /\ calls.pageLens = <<100, 100, 50>>
             /\ out.batches_processed = 3
             /\ out.total_processed = 250

C6_Witness ==
  /\ IsBulkTool /\ pc = "done" /\ out.kind = "completed"
  /\ mbox.full /\ mbox.count = 250 /\ mbox.estimate = 250 /\ out.failed = 0
  /\ out.batch_size = 100
  /\ calls.pageLens = <<100, 100, 50>>

\* C7: the replace operation (bulk_label_emails with operation replace,
\* set_email_labels) never puts INBOX, SENT, DRAFT, SPAM, TRASH, IMPORTANT,
\* STARRED or UNREAD into removeLabelIds, puts there every other label
\* carried by a message the call covers, and sends the requested label_ids
\* as addLabelIds.
IsReplace ==
  \/ tool = "set_email_labels"
  \/ tool = "bulk_label_emails" /\ args.operation = "replace"

C7_ReplaceKeepsSystemLabels ==
  (IsReplace /\ calls.last.kind # "none") =>
     LET r == calls.last
         fixed == {"INBOX", "SENT", "DRAFT", "SPAM", "TRASH",
                   "IMPORTANT", "STARRED", "UNREAD"}
     IN /\ \A i \in 1..Len(r.removeLabelIds) : r.removeLabelIds[i] \notin fixed
        /\ \A m \in (r.from + 1)..(r.from + r.len) :
             \A j \in 1..Len(LabelsOf(mbox, m)) :
                LabelsOf(mbox, m)[j] \notin fixed =>
                   Includes(r.removeLabelIds, LabelsOf(mbox, m)[j])
        /\ r.addLabelIds = args.label_ids

C7_Witness ==
  /\ tool = "bulk_label_emails" /\ args.operation = "replace"
  /\ calls.last.kind = "batchModify"
  /\ calls.last.len = 2
  /\ LabelsOf(mbox, 1) = <<"INBOX", "UNREAD", "Project-X">>
  /\ LabelsOf(mbox, 2) = <<"Project-X", "Project-Y">>
  /\ calls.last.removeLabelIds = <<"Project-X", "Project-Y">>
  /\ calls.last.addLabelIds = <<"Project-Y">>


(***************************************************************************)
(* delete_emails_by_query                                                  *)
(*                                                                         *)
(* A message is identified by its position in the listing.                 *)
(* loc.emailDetails  ids of the matched messages                           *)
(* loc.deletedIds    ids pushed to deletedIds                              *)
(* loc.errors        { id, error } entries pushed to errors                *)
(* loc.i             position of the fallback loop in emailDetails         *)
(* calls.bulkResult  "none", "ok" or "failed": outcome of the bulk call    *)
(* calls.attempts    per message, individual delete / trash calls issued   *)
(* calls.singleOk    messages whose individual call returned               *)
(***************************************************************************)
MaxDqMsgs == 3       \* messages matching the query of delete_emails_by_query

\* Math.max(1, Math.min(100, Number(max || 50)))
DqMaxResults(max) ==
  Max(1, Min(100, IF max = Undefined \/ max = 0 THEN 50 ELSE max))

\* messages.map(m => m.id) for a page starting after position from
PageIds(from, len) == [k \in 1..len |-> from + k]

\* mutant: a failed individual call is reported as deleted all the same
DqFallbackItem_AlwaysDeleted(l, id, ok) ==
  [l EXCEPT !.deletedIds = Append(@, id), !.i = @ + 1]

\* body of the fallback loop for one message: try (delete | trash), catch
DqFallbackItem(l, id, ok) ==
  IF ok THEN [l EXCEPT !.deletedIds = Append(@, id), !.i = @ + 1]
        ELSE [l EXCEPT !.errors = Append(@, [id |-> id, error |-> ErrorMessage]),
                       !.i = @ + 1]

\* emailDetails.filter(e => deletedIds.includes(e.id))
DqReportedEmails(emailDetails, deletedIds) ==
  SelectSeq(emailDetails, LAMBDA id : Includes(deletedIds, id))

NoDqLocals == [emailDetails |-> <<>>, deletedIds |-> <<>>, errors |-> <<>>, i |-> 0]
NoDqCalls == [bulkResult |-> "none", attempts |-> [id \in 1..MaxDqMsgs |-> 0],
              singleOk |-> {}]

toolDeleteEmailsByQuery ==
  /\ tool = "delete_emails_by_query" /\ pc = "start"
  /\ IF args.query = ""
     THEN /\ pc' = "error"
          /\ out' = [kind |-> "InvalidParams"]
          /\ UNCHANGED loc
     ELSE \E listFails \in BOOLEAN :
            IF listFails
            THEN /\ pc' = "error"
                 /\ out' = [kind |-> "thrown"]
                 /\ UNCHANGED loc
            ELSE \E r \in ListResponses(mbox, NoToken, DqMaxResults(args.max)) :
                   IF r.len = 0
                   THEN /\ pc' = "done"
                        /\ out' = [kind |-> "no_emails_found"]
                        /\ UNCHANGED loc
                   ELSE /\ loc' = [loc EXCEPT !.emailDetails = PageIds(r.from, r.len)]
                        /\ IF args.dry_run
                           THEN /\ pc' = "done"
                                /\ out' = [kind |-> "dry_run", count |-> r.len]
                           ELSE /\ pc' = "bulk"
                                /\ UNCHANGED out
  /\ UNCHANGED <<tool, args, mbox, calls, ruleFile>>

\* the single bulk call: batchDelete, or batchModify adding TRASH
toolDeleteEmailsByQueryBulk ==
  /\ tool = "delete_emails_by_query" /\ pc = "bulk"
  /\ \E callFails \in BOOLEAN :
       IF callFails
       THEN /\ pc' = "fallback"
            /\ loc' = [loc EXCEPT !.i = 1]
            /\ calls' = [calls EXCEPT !.bulkResult = "failed"]
       ELSE /\ pc' = "return"
            /\ loc' = [loc EXCEPT !.deletedIds = @ \o loc.emailDetails]
            /\ calls' = [calls EXCEPT !.bulkResult = "ok"]
  /\ UNCHANGED <<tool, args, mbox, out, ruleFile>>

\* one iteration of the fallback loop: messages.delete or messages.trash
toolDeleteEmailsByQueryFallback ==
  /\ tool = "delete_emails_by_query" /\ pc = "fallback"
  /\ LET id == loc.emailDetails[loc.i]
     IN \E ok \in BOOLEAN :
          LET l1 == DqFallbackItem(loc, id, ok)
          IN /\ loc' = l1
             /\ calls' = [calls EXCEPT
                            !.attempts[id] = @ + 1,
                            !.singleOk = IF ok THEN @ \cup {id} ELSE @]
             /\ pc' = IF l1.i > Len(l1.emailDetails) THEN "return" ELSE "fallback"
  /\ UNCHANGED <<tool, args, mbox, out, ruleFile>>

toolDeleteEmailsByQueryReturn ==
  /\ tool = "delete_emails_by_query" /\ pc = "return"
  /\ pc' = "done"
  /\ out' = [kind |-> "completed",
             successful |-> Len(loc.deletedIds),
             failed |-> Len(loc.errors),
             errors |-> loc.errors,
             emails |-> DqReportedEmails(loc.emailDetails, loc.deletedIds)]
  /\ UNCHANGED <<tool, args, mbox, loc, calls, ruleFile>>

MaxArgs == {Undefined, 1, 2}

InitDq ==
  /\ tool = "delete_emails_by_query"
  /\ pc = "start"
  /\ loc = NoDqLocals
  /\ out = NoOutput
  /\ calls = NoDqCalls
  /\ ruleFile = <<>>
  /\ args \in [query : {"", "older_than:1y"}, max : MaxArgs,
               permanent : BOOLEAN, dry_run : BOOLEAN]
  /\ \E n \in 0..MaxDqMsgs, f \in BOOLEAN :
       mbox = [count |-> n, estimate |-> n, full |-> f, labelled |-> <<>>]

NextDq ==
  \/ toolDeleteEmailsByQuery
  \/ toolDeleteEmailsByQueryBulk
  \/ toolDeleteEmailsByQueryFallback
  \/ toolDeleteEmailsByQueryReturn

SpecDq == InitDq /\ [][NextDq]_vars

Occurrences(s, x) == Cardinality({i \in 1..Len(s) : s[i] = x})

\* C5: in delete_emails_by_query, when the bulk call fails every matched
\* message is attempted individually exactly once; a message is reported as
\* deleted iff the bulk call succeeded or its own call succeeded; every
\* matched message is counted in exactly one of successful and failed, and
\* successful + failed is the number of matched messages.
C5_FallbackTracksEveryMessage ==
  (tool = "delete_emails_by_query" /\ pc = "done" /\ out.kind = "completed") =>
     LET matched == {loc.emailDetails[k] : k \in 1..Len(loc.emailDetails)}
         failedIds == [k \in 1..Len(loc.errors) |-> loc.errors[k].id]
     IN /\ calls.bulkResult = "failed" =>
             \A id \in matched : calls.attempts[id] = 1
        /\ \A id \in matched :
             Includes(out.emails, id) <=>
                (calls.bulkResult = "ok" \/ id \in calls.singleOk)
        /\ \A id \in matched :
             Occurrences(loc.deletedIds, id) + Occurrences(failedIds, id) = 1
        /\ out.successful + out.failed = Cardinality(matched)
        /\ Cardinality(matched) = Len(loc.emailDetails)

C5_Witness ==
  /\ tool = "delete_emails_by_query" /\ pc = "done" /\ out.kind = "completed"
  /\ calls.bulkResult = "failed"
  /\ Len(loc.emailDetails) = 3
  /\ out.successful = 2 /\ out.failed = 1
  /\ out.emails = <<1, 3>>


(***************************************************************************)
(* run_auto_labeling_rules                                                 *)
(*                                                                         *)
(* ruleFile           the rules array stored in auto-labeling-rules.json   *)
(* mbox.labels        names of the labels that exist in the mailbox        *)
(* mbox.mail          per message, the user labels applied to it           *)
(* loc.rules          the list loaded at the start of the run              *)
(* loc.enabledRules   indices into loc.rules of the rules to process       *)
(* loc.ei             position of the for loop in enabledRules             *)
(* calls.faultsLeft   remote calls and file writes that may still fail     *)
(* calls.now          clock read by new Date()                             *)
(* calls.create       labels.create calls issued in this run               *)
(* calls.batchModify  batchModify calls issued in this run                 *)
(* calls.writes       rule file writes attempted in this run               *)
(* calls.visited      positions of enabledRules whose processing began     *)
(* calls.failedAt     positions of enabledRules at which a call threw      *)
(* calls.found        per position of enabledRules, the emails_found       *)
(*                    reported in results, NotReported if none             *)
(* calls.status       per position of enabledRules, the status reported    *)
(*                    in results, "" if none                               *)
(* calls.searched     per position of enabledRules, the queries passed to  *)
(*                    messages.list                                        *)
(* calls.applied      positions of enabledRules with a batchModify call    *)
(* calls.lists        per position of enabledRules, the messages.list      *)
(*                    calls: maxResults and pageToken passed, whether the  *)
(*                    call returned, messages and token it returned        *)
(* calls.chunks       per position of enabledRules, the batchModify calls: *)
(*                    ids passed and whether the call returned             *)
(* calls.created      names of the labels labels.create returned, in order *)
(* calls.others       rules stored by other tool calls during the run      *)
(* calls.prev         outcome of the previous run                          *)
(***************************************************************************)
MaxRules == 2        \* rules in the rule file
MaxMail == 3         \* messages in the mailbox
MaxFaults == 2       \* remote calls and file writes that fail in one behaviour

NotReported == -1
maxBatchSize == 1000

\* the messages of the modelled mailbox: sender and subject by position
Sender(i) == IF i % 3 = 0 THEN "bob" ELSE "alice"
Subject(i) == IF i % 2 = 1 THEN "invoice" ELSE "hello"

\* subject_contains.map(text => `subject:"${text}"`).join(' OR ')
RECURSIVE JoinSubjects(_)
JoinSubjects(texts) ==
  IF texts = <<>> THEN ""
  ELSE IF Len(texts) = 1 THEN "subject:\"" \o texts[1] \o "\""
  ELSE "subject:\"" \o texts[1] \o "\" OR " \o JoinSubjects(Tail(texts))

\* mutant: the subject_contains group is built without the length test
RunSearchQuery_NoLengthTest(rule) ==
  IF rule.query # "" THEN rule.query
  ELSE "(" \o JoinSubjects(rule.subject_contains) \o ")"

\* the query a stored rule is searched with
RunSearchQuery(rule) ==
  IF rule.query # "" THEN rule.query
  ELSE IF rule.subject_contains # <<>>
  THEN "(" \o JoinSubjects(rule.subject_contains) \o ")"
  ELSE ""

\* gmail search: does message i of the mailbox match query q
MatchesQuery(mb, i, q) ==
  CASE q = "from:alice" -> Sender(i) = "alice"
    [] q = "from:bob" -> Sender(i) = "bob"
    [] q = "has:nouserlabels" -> mb.mail[i] = {}
    [] q = "(subject:\"invoice\")" -> Subject(i) = "invoice"
    [] q = "(subject:\"invoice\" OR subject:\"hello\")" -> TRUE
    [] OTHER -> FALSE

\* ids of the messages matching q, in listing order
MatchingIds(mb, q) ==
  SelectSeq([i \in 1..Len(mb.mail) |-> i], LAMBDA i : MatchesQuery(mb, i, q))

\* gmail.users.messages.list({ q, maxResults, pageToken })
RunListResponse(mb, q, pageToken, maxResults) ==
  LET ids == MatchingIds(mb, q)
      pos == IF pageToken = NoToken THEN 0 ELSE pageToken
      len == Max(0, Min(maxResults, Len(ids) - pos))
  IN [messages |-> SubSeq(ids, pos + 1, pos + len),
      nextPageToken |-> IF pos + len < Len(ids) THEN pos + len ELSE NoToken]

\* gmail.users.messages.batchModify({ ids, addLabelIds: [labelId] })
ApplyLabel(mb, ids, labelId) ==
  [mb EXCEPT !.mail = [i \in 1..Len(mb.mail) |->
                         IF Includes(ids, i) THEN mb.mail[i] \cup {labelId}
                         ELSE mb.mail[i]]]

\* rules.filter(rule => rule.enabled !== false), as indices into rules
\* a rule stored without an enabled field has rule.enabled === undefined,
\* which is !== false
\* mutant: the filter keeps the rules whose enabled field is truthy
EnabledRules_Truthy(rules) ==
  SelectSeq([i \in 1..Len(rules) |-> i],
            LAMBDA i : IF "enabled" \in DOMAIN rules[i]
                       THEN rules[i].enabled = TRUE ELSE FALSE)

EnabledRules(rules) ==
  SelectSeq([i \in 1..Len(rules) |-> i],
            LAMBDA i : IF "enabled" \in DOMAIN rules[i]
                       THEN rules[i].enabled # FALSE ELSE TRUE)

NoRunLocals ==
  [rules |-> <<>>, enabledRules |-> <<>>, ei |-> 0, labelId |-> "",
   searchQuery |-> "", totalEmailsFound |-> 0, totalEmailsLabeled |-> 0,
   nextPageToken |-> NoToken, batchCount |-> 0, allMessageIds |-> <<>>,
   i |-> 0, results |-> <<>>, errors |-> <<>>]

NoPrev == [kind |-> "none"]

RunCalls(faultsLeft, now, prev) ==
  [faultsLeft |-> faultsLeft, now |-> now, create |-> 0, batchModify |-> 0,
   writes |-> 0, visited |-> <<>>, failedAt |-> <<>>,
   found |-> [k \in 1..MaxRules |-> NotReported],
   status |-> [k \in 1..MaxRules |-> ""],
   searched |-> [k \in 1..MaxRules |-> {}], applied |-> {},
   lists |-> [k \in 1..MaxRules |-> <<>>],
   chunks |-> [k \in 1..MaxRules |-> <<>>],
   created |-> <<>>, others |-> <<>>,
   prev |-> prev]

CurrentRule == loc.rules[loc.enabledRules[loc.ei]]

\* whether a remote call or file write may throw now
MayFail == IF calls.faultsLeft > 0 THEN BOOLEAN ELSE {FALSE}

\* the for loop moves on to the next enabled rule or ends
NextRulePc(l) == IF l.ei + 1 > Len(l.enabledRules) THEN "return" ELSE "label"

\* mutant: an exception raised by one rule ends the for loop
RunCatch_Abort(l, c) ==
  [l |-> [l EXCEPT !.errors = Append(@, [rule |-> l.rules[l.enabledRules[l.ei]].label_name,
                                         error |-> ErrorMessage]),
                   !.ei = Len(l.enabledRules) + 1],
   c |-> [c EXCEPT !.faultsLeft = @ - 1, !.failedAt = Append(@, l.ei)],
   pc |-> "return"]

\* catch (error) { errors.push({ rule: rule.label_name, error }) }
RunCatch(l, c) ==
  [l |-> [l EXCEPT !.errors = Append(@, [rule |-> l.rules[l.enabledRules[l.ei]].label_name,
                                         error |-> ErrorMessage]),
                   !.ei = @ + 1],
   c |-> [c EXCEPT !.faultsLeft = @ - 1, !.failedAt = Append(@, l.ei)],
   pc |-> NextRulePc(l)]

\* mutant: an entry that found no email is not pushed
RunPushResult_NonEmpty(l, c, entry) ==
  [l |-> [l EXCEPT !.results = IF entry.emails_found = 0 THEN @
                                ELSE Append(@, entry),
                   !.ei = @ + 1],
   c |-> [c EXCEPT !.found[l.ei] = entry.emails_found,
                   !.status[l.ei] = entry.status],
   pc |-> NextRulePc(l)]

\* results.push(entry) followed by the next iteration of the for loop
RunPushResult(l, c, entry) ==
  [l |-> [l EXCEPT !.results = Append(@, entry), !.ei = @ + 1],
   c |-> [c EXCEPT !.found[l.ei] = entry.emails_found,
                   !.status[l.ei] = entry.status],
   pc |-> NextRulePc(l)]

toolRunAutoLabelingRules ==
  /\ tool = "run_auto_labeling_rules" /\ pc = "start"
  /\ \E readFails \in MayFail, authFails \in MayFail :
       LET rules == IF readFails THEN <<>> ELSE ruleFile
           enabledRules == EnabledRules(rules)
       IN IF enabledRules = <<>>
          THEN /\ pc' = "done"
               /\ out' = [kind |-> "no_enabled_rules", total_rules |-> Len(rules),
                          enabled_rules |-> 0]
               /\ loc' = [NoRunLocals EXCEPT !.rules = rules]
               /\ calls' = [calls EXCEPT
                              !.faultsLeft = @ - (IF readFails THEN 1 ELSE 0)]
          ELSE IF authFails
          THEN /\ pc' = "error"
               /\ out' = [kind |-> "thrown"]
               /\ loc' = [NoRunLocals EXCEPT !.rules = rules,
                                             !.enabledRules = enabledRules]
               /\ calls' = [calls EXCEPT !.faultsLeft = @ - 1]
          ELSE /\ pc' = "label"
               /\ loc' = [NoRunLocals EXCEPT !.rules = rules,
                                             !.enabledRules = enabledRules,
                                             !.ei = 1]
               /\ UNCHANGED <<out, calls>>
  /\ UNCHANGED <<tool, args, mbox, ruleFile>>


\* String.prototype.toLowerCase() on the label names of the model
Lower(name) == CASE name = "Work" -> "work" [] OTHER -> name

\* mutant: names are matched without regard to case
ExistingLabel_AnyCase(labels, label_name) ==
  \E l \in labels : Lower(l) = Lower(label_name)

\* labels.data.labels?.find(label => label.name === rule.label_name)
ExistingLabel(labels, label_name) == label_name \in labels

\* find or create the label of the current rule, then resolve its query
toolRunAutoLabelingRulesLabel ==
  /\ tool = "run_auto_labeling_rules" /\ pc = "label"
  /\ \E listFails \in MayFail, createFails \in MayFail :
       LET rule == CurrentRule
           exists == ExistingLabel(mbox.labels, rule.label_name)
           c1 == [calls EXCEPT !.visited = Append(@, loc.ei)]
           c2 == IF exists THEN c1 ELSE [c1 EXCEPT !.create = @ + 1]
           c3 == IF exists THEN c1
                 ELSE [c2 EXCEPT !.created = Append(@, rule.label_name)]
           searchQuery == RunSearchQuery(rule)
           l1 == [loc EXCEPT !.labelId = rule.label_name,
                             !.searchQuery = searchQuery,
                             !.totalEmailsFound = 0,
                             !.totalEmailsLabeled = 0,
                             !.nextPageToken = NoToken,
                             !.batchCount = 0,
                             !.allMessageIds = <<>>,
                             !.i = 0]
           caught == IF listFails THEN RunCatch(loc, c1) ELSE RunCatch(loc, c2)
           pushed == RunPushResult(l1, c3,
                       [rule |-> rule.label_name, label_id |-> rule.label_name,
                        emails_found |-> 0, status |-> "no_search_criteria"])
       IN IF listFails \/ (~exists /\ createFails)
          THEN /\ loc' = caught.l /\ calls' = caught.c /\ pc' = caught.pc
               /\ UNCHANGED mbox
          ELSE /\ mbox' = [mbox EXCEPT !.labels = @ \cup {rule.label_name}]
               /\ IF searchQuery = ""
                  THEN loc' = pushed.l /\ calls' = pushed.c /\ pc' = pushed.pc
                  ELSE /\ loc' = l1
                       /\ calls' = c3
                       /\ pc' = IF l1.batchCount < args.max_batches
                                THEN "page" ELSE "found"
  /\ UNCHANGED <<tool, args, out, ruleFile>>

\* mutant: batch_size is passed on as it is
PageSize_NoCap(batch_size) == batch_size

\* maxResults: Math.min(batch_size, 500)
PageSize(batch_size) == Min(batch_size, 500)

\* one iteration of while (batchCount < max_batches)
toolRunAutoLabelingRulesPage ==
  /\ tool = "run_auto_labeling_rules" /\ pc = "page"
  /\ \E listFails \in MayFail :
       LET r == RunListResponse(mbox, loc.searchQuery, loc.nextPageToken,
                                PageSize(args.batch_size))
           c1 == [calls EXCEPT
                    !.searched[loc.ei] = @ \cup {loc.searchQuery},
                    !.lists[loc.ei] =
                       Append(@, [maxResults |-> PageSize(args.batch_size),
                                  pageToken |-> loc.nextPageToken,
                                  ok |-> ~listFails,
                                  messages |-> IF listFails THEN <<>>
                                               ELSE r.messages,
                                  nextPageToken |-> IF listFails THEN NoToken
                                                    ELSE r.nextPageToken])]
           caught == RunCatch(loc, c1)
           l1 == [loc EXCEPT !.totalEmailsFound = @ + Len(r.messages),
                             !.allMessageIds = @ \o r.messages,
                             !.nextPageToken = r.nextPageToken]
           l2 == [l1 EXCEPT !.batchCount = @ + 1]
       IN IF listFails
          THEN loc' = caught.l /\ calls' = caught.c /\ pc' = caught.pc
          ELSE /\ calls' = c1
               /\ IF r.messages = <<>>
                  THEN loc' = loc /\ pc' = "found"
                  ELSE IF r.nextPageToken = NoToken
                  THEN loc' = l1 /\ pc' = "found"
                  ELSE /\ loc' = l2
                       /\ pc' = IF l2.batchCount < args.max_batches
                                THEN "page" ELSE "found"
  /\ UNCHANGED <<tool, args, mbox, out, ruleFile>>

\* mutant: the dry_run flag is not honoured
RunAfterPaging_IgnoreDryRun(dry_run, totalEmailsFound) ==
  IF totalEmailsFound = 0 THEN "no_emails_found" ELSE "apply"

\* the branch taken when the paging loop has ended
RunAfterPaging(dry_run, totalEmailsFound) ==
  IF totalEmailsFound = 0 THEN "no_emails_found"
  ELSE IF dry_run THEN "dry_run"
  ELSE "apply"

toolRunAutoLabelingRulesFound ==
  /\ tool = "run_auto_labeling_rules" /\ pc = "found"
  /\ LET branch == RunAfterPaging(args.dry_run, loc.totalEmailsFound)
         rule == CurrentRule
         none == RunPushResult(loc, calls,
                   [rule |-> rule.label_name, label_id |-> loc.labelId,
                    emails_found |-> 0, status |-> "no_emails_found"])
         dry == RunPushResult(loc, calls,
                   [rule |-> rule.label_name, label_id |-> loc.labelId,
                    emails_found |-> loc.totalEmailsFound,
                    batches_processed |-> loc.batchCount + 1,
                    status |-> "dry_run", query |-> loc.searchQuery])
     IN CASE branch = "no_emails_found" ->
               loc' = none.l /\ calls' = none.c /\ pc' = none.pc
          [] branch = "dry_run" ->
               loc' = dry.l /\ calls' = dry.c /\ pc' = dry.pc
          [] OTHER ->
               loc' = [loc EXCEPT !.i = 0] /\ pc' = "apply" /\ UNCHANGED calls
  /\ UNCHANGED <<tool, args, mbox, out, ruleFile>>

\* mutant: the slice ends one element later
BatchIds_OneMore(allMessageIds, i) ==
  SubSeq(allMessageIds, i + 1, Min(i + maxBatchSize + 1, Len(allMessageIds)))

\* allMessageIds.slice(i, i + maxBatchSize)
BatchIds(allMessageIds, i) ==
  SubSeq(allMessageIds, i + 1, Min(i + maxBatchSize, Len(allMessageIds)))

\* one iteration of for (i = 0; i < allMessageIds.length; i += maxBatchSize)
toolRunAutoLabelingRulesApply ==
  /\ tool = "run_auto_labeling_rules" /\ pc = "apply"
  /\ \E callFails \in MayFail :
       LET batchIds == BatchIds(loc.allMessageIds, loc.i)
           c1 == [calls EXCEPT !.batchModify = @ + 1,
                               !.applied = @ \cup {loc.ei},
                               !.chunks[loc.ei] =
                                  Append(@, [ids |-> batchIds,
                                             ok |-> ~callFails])]
           caught == RunCatch(loc, c1)
           l1 == [loc EXCEPT !.totalEmailsLabeled = @ + Len(batchIds),
                             !.i = @ + maxBatchSize]
       IN IF callFails
          THEN /\ loc' = caught.l /\ calls' = caught.c /\ pc' = caught.pc
               /\ UNCHANGED mbox
          ELSE /\ mbox' = ApplyLabel(mbox, batchIds, loc.labelId)
               /\ loc' = l1
               /\ calls' = c1
               /\ pc' = IF l1.i < Len(l1.allMessageIds) THEN "apply" ELSE "save"
  /\ UNCHANGED <<tool, args, out, ruleFile>>

\* rule.last_run = now; saveAutoLabelingRules(rules); results.push(...)
toolRunAutoLabelingRulesSave ==
  /\ tool = "run_auto_labeling_rules" /\ pc = "save"
  /\ \E writeFails \in MayFail :
       LET idx == loc.enabledRules[loc.ei]
           l1 == [loc EXCEPT !.rules[idx].last_run = calls.now]
           c1 == [calls EXCEPT !.now = @ + 1, !.writes = @ + 1]
           caught == RunCatch(l1, c1)
           pushed == RunPushResult(l1, c1,
                       [rule |-> CurrentRule.label_name, label_id |-> loc.labelId,
                        emails_found |-> loc.totalEmailsFound,
                        emails_labeled |-> loc.totalEmailsLabeled,
                        batches_processed |-> loc.batchCount + 1,
                        status |-> "labeled", query |-> loc.searchQuery])
       IN IF writeFails
          THEN /\ loc' = caught.l /\ calls' = caught.c /\ pc' = caught.pc
               /\ UNCHANGED ruleFile
          ELSE /\ ruleFile' = l1.rules
               /\ loc' = pushed.l /\ calls' = pushed.c /\ pc' = pushed.pc
  /\ UNCHANGED <<tool, args, mbox, out>>

toolRunAutoLabelingRulesReturn ==
  /\ tool = "run_auto_labeling_rules" /\ pc = "return"
  /\ pc' = "done"
  /\ out' = [kind |-> "completed",
             dry_run |-> args.dry_run,
             total_rules |-> Len(loc.rules),
             enabled_rules |-> Len(loc.enabledRules),
             processed |-> Len(loc.results),
             failed |-> Len(loc.errors),
             results |-> loc.results,
             errors |-> loc.errors]
  /\ UNCHANGED <<tool, args, mbox, loc, calls, ruleFile>>

\* the client calls run_auto_labeling_rules once more, with the same paging
\* arguments, right after a completed run
CallRunAutoLabelingRulesAgain ==
  /\ tool = "run_auto_labeling_rules" /\ pc = "done"
  /\ out.kind = "completed"
  /\ calls.prev = NoPrev
  /\ pc' = "start"
  /\ \E dry_run \in BOOLEAN : args' = [args EXCEPT !.dry_run = dry_run]
  /\ loc' = NoRunLocals
  /\ out' = NoOutput
  /\ calls' = RunCalls(calls.faultsLeft, calls.now,
                       [kind |-> "run", dry_run |-> args.dry_run,
                        found |-> calls.found, ruleFile |-> ruleFile])
  /\ UNCHANGED <<tool, mbox, ruleFile>>

(***************************************************************************)
(* Specification of run_auto_labeling_rules                                *)
(***************************************************************************)
StoredRule(label_name, query, sender_pattern, subject_contains, enabled) ==
  [label_name |-> label_name, sender_pattern |-> sender_pattern,
   subject_pattern |-> "", subject_contains |-> subject_contains,
   query |-> query, enabled |-> enabled, last_run |-> 0]

\* the rules a rule file of the model is made of
StoredRules ==
  { StoredRule("Work", "from:alice", "alice", <<>>, TRUE),
    StoredRule("Todo", "has:nouserlabels", "", <<>>, TRUE),
    StoredRule("Bills", "", "", <<"invoice">>, TRUE),
    StoredRule("Work", "", "bob", <<>>, TRUE),
    StoredRule("Spam", "from:bob", "bob", <<>>, FALSE) }

RuleFiles == UNION { [1..n -> StoredRules] : n \in 0..MaxRules }

InitRun ==
  /\ tool = "run_auto_labeling_rules"
  /\ pc = "start"
  /\ args \in [dry_run : BOOLEAN, max_per_rule : {100},
               batch_size : {1, 2}, max_batches : {1, 2}]
  /\ \E n \in 0..MaxMail, ls \in {{}, {"Work"}} :
       mbox = [labels |-> ls, mail |-> [i \in 1..n |-> {}]]
  /\ loc = NoRunLocals
  /\ out = NoOutput
  /\ calls = RunCalls(MaxFaults, 1, NoPrev)
  /\ ruleFile \in RuleFiles

NextRun ==
  \/ toolRunAutoLabelingRules
  \/ toolRunAutoLabelingRulesLabel
  \/ toolRunAutoLabelingRulesPage
  \/ toolRunAutoLabelingRulesFound
  \/ toolRunAutoLabelingRulesApply
  \/ toolRunAutoLabelingRulesSave
  \/ toolRunAutoLabelingRulesReturn
  \/ CallRunAutoLabelingRulesAgain

SpecRun == InitRun /\ [][NextRun]_vars


(***************************************************************************)
(* Properties of run_auto_labeling_rules                                   *)
(***************************************************************************)
RunCompleted ==
  tool = "run_auto_labeling_rules" /\ pc = "done" /\ out.kind = "completed"

\* C8: in run_auto_labeling_rules a failure raised while one enabled rule is
\* processed (label list or create, search, apply, rule file write) is
\* recorded in errors with that rule's label name and does not stop the run:
\* every enabled rule is processed, in store order.
C8_RuleFailureIsolated ==
  RunCompleted =>
     /\ loc.enabledRules = EnabledRules(loc.rules)
     /\ calls.visited = [k \in 1..Len(loc.enabledRules) |-> k]
     /\ Len(out.errors) = Len(calls.failedAt)
     /\ \A k \in 1..Len(calls.failedAt) :
          out.errors[k].rule =
             loc.rules[loc.enabledRules[calls.failedAt[k]]].label_name

C8_Witness ==
  /\ RunCompleted
  /\ Len(loc.enabledRules) = 2
  /\ calls.failedAt = <<1>>
  /\ calls.visited = <<1, 2>>
  /\ Len(out.results) = 1
  /\ out.results[1].status = "labeled"
  /\ out.errors[1].rule = loc.rules[loc.enabledRules[1]].label_name
  /\ out.results[1].rule # out.errors[1].rule

\* C9: with dry_run = true, run_auto_labeling_rules issues no mutating
\* mailbox call (no labels.create, no batchModify) and does not write the
\* rule file.
C9_DryRunMutatesNothing ==
  (tool = "run_auto_labeling_rules" /\ args.dry_run) =>
     /\ calls.create = 0
     /\ calls.batchModify = 0
     /\ calls.writes = 0

\* C10: two runs of run_auto_labeling_rules in a row, both with
\* dry_run = true, report the same emails_found for every rule that has a
\* result entry in both runs.
C10_DryRunsAgree ==
  (RunCompleted /\ args.dry_run /\ calls.prev.kind = "run" /\ calls.prev.dry_run) =>
     /\ calls.prev.ruleFile = ruleFile
     /\ \A k \in 1..Len(loc.enabledRules) :
          (calls.prev.found[k] # NotReported /\ calls.found[k] # NotReported) =>
             calls.found[k] = calls.prev.found[k]

C10_Witness ==
  /\ RunCompleted /\ args.dry_run
  /\ calls.prev.kind = "run" /\ calls.prev.dry_run
  /\ Len(loc.enabledRules) = 2
  /\ loc.rules[loc.enabledRules[1]].query = "has:nouserlabels"
  /\ calls.prev.found[1] = 2 /\ calls.found[1] = 2
  /\ calls.prev.found[2] = 1 /\ calls.found[2] = 1

(***************************************************************************)
(* Query synthesis of add_auto_labeling_rule.  An absent or null string    *)
(* field is "", an absent or empty subject_contains is <<>>.               *)
(***************************************************************************)
\* Array.prototype.join(sep) on an array of strings
RECURSIVE Join(_, _)
Join(ss, sep) ==
  IF ss = <<>> THEN ""
  ELSE IF Len(ss) = 1 THEN ss[1]
  ELSE ss[1] \o sep \o Join(Tail(ss), sep)

\* mutant: the subject_pattern clause is pushed before the sender clause
SynthesizeQuery_SubjectFirst(query, sender_pattern, subject_pattern, subject_contains) ==
  IF query # "" THEN query
  ELSE LET c1 == IF sender_pattern # ""
                 THEN <<"from:" \o sender_pattern>> ELSE <<>>
           c2 == IF subject_pattern # ""
                 THEN <<"subject:\"" \o subject_pattern \o "\"">> ELSE <<>>
           c3 == IF subject_contains # <<>>
                 THEN <<"(" \o JoinSubjects(subject_contains) \o ")">>
                 ELSE <<>>
       IN Join(c2 \o c1 \o c3, " ")

\* let searchQuery = ''; if (query) ... else conditions.join(' ')
SynthesizeQuery(query, sender_pattern, subject_pattern, subject_contains) ==
  IF query # "" THEN query
  ELSE LET c1 == IF sender_pattern # ""
                 THEN <<"from:" \o sender_pattern>> ELSE <<>>
           c2 == IF subject_pattern # ""
                 THEN <<"subject:\"" \o subject_pattern \o "\"">> ELSE <<>>
           c3 == IF subject_contains # <<>>
                 THEN <<"(" \o JoinSubjects(subject_contains) \o ")">>
                 ELSE <<>>
       IN Join(c1 \o c2 \o c3, " ")

(***************************************************************************)
(* Specification of one run of run_auto_labeling_rules over rule files     *)
(* that were written by hand or imported: rules without criteria, with     *)
(* patterns but no query, and without an enabled field.                    *)
(***************************************************************************)
\* a rule object that has no enabled property
StoredRuleNoEnabled(label_name, query) ==
  [label_name |-> label_name, sender_pattern |-> "", subject_pattern |-> "",
   subject_contains |-> <<>>, query |-> query, last_run |-> 0]

OnceRules ==
  { StoredRule("Work", "from:alice", "alice", <<>>, TRUE),
    StoredRule("Misc", "", "", <<>>, TRUE),
    StoredRule("Work", "", "bob", <<>>, TRUE),
    StoredRuleNoEnabled("Todo", "from:bob"),
    StoredRule("Spam", "from:alice", "alice", <<>>, FALSE) }

OnceRuleFiles == UNION { [1..n -> OnceRules] : n \in 0..MaxRules }

InitRunOnce ==
  /\ tool = "run_auto_labeling_rules"
  /\ pc = "start"
  /\ args \in [dry_run : BOOLEAN, max_per_rule : {1, 100},
               batch_size : {1, 2}, max_batches : {1, 2}]
  /\ \E n \in 0..MaxMail, ls \in {{}, {"Work"}, {"work"}} :
       mbox = [labels |-> ls, mail |-> [i \in 1..n |-> {}]]
  /\ loc = NoRunLocals
  /\ out = NoOutput
  /\ calls = RunCalls(MaxFaults, 1, NoPrev)
  /\ ruleFile \in OnceRuleFiles

NextRunOnce ==
  \/ toolRunAutoLabelingRules
  \/ toolRunAutoLabelingRulesLabel
  \/ toolRunAutoLabelingRulesPage
  \/ toolRunAutoLabelingRulesFound
  \/ toolRunAutoLabelingRulesApply
  \/ toolRunAutoLabelingRulesSave
  \/ toolRunAutoLabelingRulesReturn

SpecRunOnce == InitRunOnce /\ [][NextRunOnce]_vars

\* the rule processed at position k of the run
RuleAt(k) == loc.rules[loc.enabledRules[k]]

HasNoCriteria(rule) ==
  /\ rule.query = "" /\ rule.sender_pattern = ""
  /\ rule.subject_pattern = "" /\ rule.subject_contains = <<>>

\* C11: an enabled rule with no query, no sender_pattern, no subject_pattern
\* and no subject_contains, whose label could be resolved, gets a result
\* entry with status no_search_criteria; no search and no label application
\* is made for it, it raises no error, and every enabled rule is processed.
C11_NoSearchCriteria ==
  RunCompleted =>
    /\ calls.visited = [k \in 1..Len(loc.enabledRules) |-> k]
    /\ \A k \in 1..Len(loc.enabledRules) :
         HasNoCriteria(RuleAt(k)) =>
           /\ calls.searched[k] = {}
           /\ k \notin calls.applied
           /\ ~Includes(calls.failedAt, k) =>
                /\ calls.status[k] = "no_search_criteria"
                /\ \E j \in 1..Len(out.results) :
                     /\ out.results[j].rule = RuleAt(k).label_name
                     /\ out.results[j].status = "no_search_criteria"

C11_Witness ==
  /\ RunCompleted
  /\ ~args.dry_run
  /\ Len(loc.enabledRules) = 2
  /\ HasNoCriteria(RuleAt(1))
  /\ calls.failedAt = <<>>
  /\ calls.status[1] = "no_search_criteria"
  /\ calls.status[2] = "labeled"
  /\ out.results[1].status = "no_search_criteria"

\* C12: the run searches each rule with the query of the synthesizer of
\* add_auto_labeling_rule applied to the stored fields: the query verbatim,
\* else the clauses of the present patterns joined by one space; a rule with
\* only sender_pattern = p is searched with exactly from:p.
C12_RunUsesSynthesizer ==
  RunCompleted =>
    \A k \in 1..Len(loc.enabledRules) :
      LET rule == RuleAt(k)
          effective == SynthesizeQuery(rule.query, rule.sender_pattern,
                                       rule.subject_pattern,
                                       rule.subject_contains)
      IN (effective # "" /\ ~Includes(calls.failedAt, k)) =>
            calls.searched[k] = {effective}

IsDisabled(rule) == "enabled" \in DOMAIN rule /\ rule.enabled = FALSE

\* positions of the stored list whose rule is not disabled
NotDisabled(rules) == { i \in 1..Len(rules) : ~IsDisabled(rules[i]) }

\* C18: the run processes exactly the rules whose enabled field is not
\* false, a rule without the field included: every mailbox call, result and
\* error belongs to such a rule, each of them gets one result or error, and
\* no step of the run changes a stored rule whose enabled field is false.
C18_SkipsExactlyDisabled ==
  /\ [](\A k \in 1..Len(calls.visited) :
          ~IsDisabled(loc.rules[loc.enabledRules[calls.visited[k]]]))
  /\ [](RunCompleted =>
          /\ { loc.enabledRules[calls.visited[k]] :
                 k \in 1..Len(calls.visited) } = NotDisabled(loc.rules)
          /\ Len(out.results) + Len(out.errors) =
               Cardinality(NotDisabled(loc.rules))
          /\ out.enabled_rules = Cardinality(NotDisabled(loc.rules)))
  /\ [][ /\ Len(ruleFile') = Len(ruleFile)
         /\ \A i \in 1..Len(ruleFile) :
              IsDisabled(ruleFile[i]) => ruleFile'[i] = ruleFile[i] ]_vars

C18_Witness ==
  /\ RunCompleted
  /\ ~args.dry_run
  /\ Len(ruleFile) = 2
  /\ IsDisabled(ruleFile[1])
  /\ "enabled" \notin DOMAIN ruleFile[2]
  /\ loc.enabledRules = <<2>>
  /\ calls.visited = <<1>>
  /\ calls.status[1] = "labeled"
  /\ ruleFile[1].last_run = 0
  /\ ruleFile[2].last_run # 0

\* C19: no result of a run reports more than max_per_rule emails as found
\* or as labeled.
C19_AtMostMaxPerRule ==
  RunCompleted =>
    \A j \in 1..Len(out.results) :
      /\ out.results[j].emails_found <= args.max_per_rule
      /\ "emails_labeled" \in DOMAIN out.results[j] =>
           out.results[j].emails_labeled <= args.max_per_rule

(***************************************************************************)
(* The rule store tools: list, add, remove, update and import, called one  *)
(* after the other by one client.                                          *)
(*                                                                         *)
(* tool, args, out   the last call, its arguments and its outcome          *)
(* loc.rules         the list the last call loaded from the rule file      *)
(* ruleFile          the rules array of the rule file                      *)
(* calls.n           calls made so far                                     *)
(* calls.started     the rule file at the start of the behaviour           *)
(* calls.used        tools called so far                                   *)
(* calls.last        the call before the last one: tool, args, out and     *)
(*                   the rule file it found                                *)
(*                                                                         *)
(* An argument that is not supplied is a field the args record lacks; for  *)
(* add, whose code only tests truthiness, it is "" or <<>>.  rule_index    *)
(* is 0-based as in the code, sequences are 1-based.                       *)
(***************************************************************************)
MaxCalls == 2        \* tool calls in one behaviour
MaxStored == 3       \* rules in the rule file at the start

NoArgs == [x \in {} |-> ""]

\* const { name } = args, with the value of an absent property
Arg(a, name, absent) == IF name \in DOMAIN a THEN a[name] ELSE absent

\* rule.name = value, on a rule object that may lack the property
SetField(rule, name, value) == (name :> value) @@ rule

\* mutant: one check and one error code for every bad index
IndexError_OneCheck(rule_index, n) ==
  IF rule_index = Undefined \/ rule_index < 0 \/ rule_index >= n
  THEN "InvalidParams" ELSE ""

\* the checks of rule_index in remove and update; "" when it is accepted
IndexError(rule_index, n) ==
  IF rule_index = Undefined \/ rule_index < 0 THEN "InvalidParams"
  ELSE IF rule_index >= n THEN "InvalidRequest"
  ELSE ""

\* const newRule = {...}
AddNewRule(a, searchQuery, now) ==
  [label_name |-> a.label_name, sender_pattern |-> a.sender_pattern,
   subject_pattern |-> a.subject_pattern,
   subject_contains |-> a.subject_contains, query |-> searchQuery,
   enabled |-> a.enabled, created |-> now, last_run |-> 0]

\* mutant: splice removes the last element
Splice_Last(rules, rule_index) == SubSeq(rules, 1, Len(rules) - 1)

\* rules.splice(rule_index, 1)
Splice(rules, rule_index) ==
  SubSeq(rules, 1, rule_index) \o SubSeq(rules, rule_index + 2, Len(rules))

\* the assignments of update to one rule, the query rebuild included
UpdateRule(rule, a, now) ==
  LET r1 == IF "label_name" \in DOMAIN a
            THEN SetField(rule, "label_name", a.label_name) ELSE rule
      r2 == IF "sender_pattern" \in DOMAIN a
            THEN SetField(r1, "sender_pattern", a.sender_pattern) ELSE r1
      r3 == IF "subject_pattern" \in DOMAIN a
            THEN SetField(r2, "subject_pattern", a.subject_pattern) ELSE r2
      r4 == IF "subject_contains" \in DOMAIN a
            THEN SetField(r3, "subject_contains", a.subject_contains) ELSE r3
      r5 == IF "query" \in DOMAIN a
            THEN SetField(r4, "query", a.query) ELSE r4
      r6 == IF "enabled" \in DOMAIN a
            THEN SetField(r5, "enabled", a.enabled) ELSE r5
      patterns == \/ "sender_pattern" \in DOMAIN a
                  \/ "subject_pattern" \in DOMAIN a
                  \/ "subject_contains" \in DOMAIN a
      r7 == IF patterns /\ r6.query # "" /\ Arg(a, "query", "") = ""
            THEN SetField(r6, "query",
                          SynthesizeQuery("", r6.sender_pattern,
                                          r6.subject_pattern,
                                          r6.subject_contains))
            ELSE r6
  IN SetField(r7, "updated", now)

\* mutant: the imported rules always replace the stored ones
ImportRules_Replace(existingRules, imported, merge) == imported

\* merge ? [...existingRules, ...importData.rules] : importData.rules
ImportRules(existingRules, imported, merge) ==
  IF merge THEN existingRules \o imported ELSE imported

\* one element of formattedRules
ListEntry(rule, index) ==
  [index |-> index, label_name |-> rule.label_name,
   sender_pattern |-> rule.sender_pattern,
   subject_pattern |-> rule.subject_pattern, query |-> rule.query,
   enabled |-> IF "enabled" \in DOMAIN rule THEN rule.enabled # FALSE
               ELSE TRUE,
   created |-> Arg(rule, "created", 0), last_run |-> rule.last_run]

StoreError(code) == [kind |-> "error", code |-> code]

\* the call returns or throws: the outcome is recorded and the client may
\* make its next call
StoreReturn(t, a, loaded, o, newFile, writeFailed) ==
  /\ tool' = t
  /\ pc' = "idle"
  /\ args' = a
  /\ loc' = [rules |-> loaded]
  /\ out' = o
  /\ ruleFile' = newFile
  /\ calls' = [calls EXCEPT !.n = @ + 1, !.now = @ + 1,
                            !.used = @ \cup {t},
                            !.faultsLeft = IF writeFailed THEN @ - 1 ELSE @,
                            !.before = ruleFile,
                            !.last = [tool |-> tool, args |-> args,
                                      out |-> out, before |-> calls.before]]
  /\ UNCHANGED mbox

toolListAutoLabelingRules ==
  /\ pc = "idle" /\ calls.n < MaxCalls
  /\ LET rules == ruleFile
         formattedRules == [j \in 1..Len(rules) |-> ListEntry(rules[j], j - 1)]
     IN StoreReturn("list_auto_labeling_rules", NoArgs, rules,
                    [kind |-> "ok", rules |-> formattedRules],
                    ruleFile, FALSE)

AddArgs ==
  { a \in [label_name : {"", "Work"}, query : {"", "from:alice"},
           sender_pattern : {"", "bob"}, subject_pattern : {"", "hi"},
           subject_contains : {<<>>, <<"a">>, <<"a", "b">>},
           enabled : BOOLEAN] :
      /\ a.label_name = "" => (a.query # "" /\ a.sender_pattern = ""
                                /\ a.subject_pattern = ""
                                /\ a.subject_contains = <<>>)
      /\ Len(a.subject_contains) = 1 =>
           (a.query = "" /\ a.sender_pattern = "" /\ a.subject_pattern = "")
      /\ ~a.enabled => (a.label_name # "" /\ a.query # ""
                         /\ a.sender_pattern = "" /\ a.subject_pattern = ""
                         /\ a.subject_contains = <<>>) }

\* toolAddAutoLabelingRule called with args a
AddCall(a, writeFails) ==
  LET rules == ruleFile
      searchQuery == SynthesizeQuery(a.query, a.sender_pattern,
                                     a.subject_pattern, a.subject_contains)
      newRule == AddNewRule(a, searchQuery, calls.now)
      t == "add_auto_labeling_rule"
  IN IF a.label_name = ""
     THEN StoreReturn(t, a, <<>>, StoreError("InvalidParams"),
                      ruleFile, FALSE)
     ELSE IF searchQuery = ""
     THEN StoreReturn(t, a, rules, StoreError("InvalidParams"),
                      ruleFile, FALSE)
     ELSE IF writeFails
     THEN StoreReturn(t, a, Append(rules, newRule),
                      StoreError("InternalError"), ruleFile, TRUE)
     ELSE StoreReturn(t, a, Append(rules, newRule),
                      [kind |-> "ok", index |-> Len(rules),
                       rule |-> newRule, total_rules |-> Len(rules) + 1],
                      Append(rules, newRule), FALSE)

toolAddAutoLabelingRule ==
  /\ pc = "idle" /\ calls.n < MaxCalls
  /\ \E a \in AddArgs, writeFails \in MayFail : AddCall(a, writeFails)

\* an index that no rule list of a behaviour reaches
BeyondEnd == MaxStored + 2 * MaxCalls

IndexArgs == {Undefined, -1, 0, 1, 2, BeyondEnd}

toolRemoveAutoLabelingRule ==
  /\ pc = "idle" /\ calls.n < MaxCalls
  /\ \E rule_index \in IndexArgs, writeFails \in MayFail :
       LET a == [rule_index |-> rule_index]
           rules == ruleFile
           error == IndexError(rule_index, Len(rules))
           spliced == Splice(rules, rule_index)
           t == "remove_auto_labeling_rule"
       IN IF error = "InvalidParams"
          THEN StoreReturn(t, a, <<>>, StoreError(error), ruleFile, FALSE)
          ELSE IF error # ""
          THEN StoreReturn(t, a, rules, StoreError(error), ruleFile, FALSE)
          ELSE IF writeFails
          THEN StoreReturn(t, a, spliced, StoreError("InternalError"),
                           ruleFile, TRUE)
          ELSE StoreReturn(t, a, spliced,
                           [kind |-> "ok", index |-> rule_index,
                            removed_rule |-> rules[rule_index + 1],
                            remaining_rules |-> Len(spliced)],
                           spliced, FALSE)

\* the fields an update call supplies besides rule_index
UpdateFields ==
  { NoArgs,
    [query |-> ""], [query |-> "from:carol"],
    [sender_pattern |-> ""], [sender_pattern |-> "dave"],
    [subject_pattern |-> "hi"], [subject_contains |-> <<"a">>],
    [label_name |-> "Misc"], [enabled |-> FALSE],
    [sender_pattern |-> "dave", query |-> "from:dave"] }

UpdateArgs ==
  { [rule_index |-> 0] @@ f : f \in UpdateFields }
    \cup { [rule_index |-> 1] @@ f :
             f \in {[query |-> ""], [sender_pattern |-> "dave"]} }
    \cup { [rule_index |-> i, enabled |-> FALSE] :
             i \in {Undefined, -1, BeyondEnd} }

\* toolUpdateAutoLabelingRule called with args a
UpdateCall(a, writeFails) ==
  LET rules == ruleFile
      error == IndexError(a.rule_index, Len(rules))
      idx == a.rule_index + 1
      updated == [rules EXCEPT ![idx] = UpdateRule(@, a, calls.now)]
      t == "update_auto_labeling_rule"
  IN IF error = "InvalidParams"
     THEN StoreReturn(t, a, <<>>, StoreError(error), ruleFile, FALSE)
     ELSE IF error # ""
     THEN StoreReturn(t, a, rules, StoreError(error), ruleFile, FALSE)
     ELSE IF writeFails
     THEN StoreReturn(t, a, updated, StoreError("InternalError"),
                      ruleFile, TRUE)
     ELSE StoreReturn(t, a, updated,
                      [kind |-> "ok", rule_index |-> a.rule_index,
                       original |-> rules[idx], updated |-> updated[idx]],
                      updated, FALSE)

toolUpdateAutoLabelingRule ==
  /\ pc = "idle" /\ calls.n < MaxCalls
  /\ \E a \in UpdateArgs, writeFails \in MayFail : UpdateCall(a, writeFails)

\* the files an import can be pointed at: what fs.readFile and JSON.parse
\* give for each path
FileContents(file_path) ==
  CASE file_path = "empty.json" -> [kind |-> "rules", rules |-> <<>>]
    [] file_path = "one.json" ->
         [kind |-> "rules",
          rules |-> <<StoredRule("News", "from:carol", "carol", <<>>, TRUE)>>]
    [] file_path = "two.json" ->
         [kind |-> "rules",
          rules |-> <<StoredRule("News", "from:carol", "carol", <<>>, TRUE),
                      StoredRule("Lists", "", "", <<"digest">>, FALSE)>>]
    [] file_path = "norules.json" -> [kind |-> "no_rules"]
    [] file_path = "rulesobject.json" -> [kind |-> "rules_not_array"]
    [] file_path = "notes.txt" -> [kind |-> "not_json"]
    [] OTHER -> [kind |-> "unreadable"]

ImportArgs ==
  { [file_path |-> f, merge |-> m] :
      f \in {"empty.json", "one.json", "two.json"}, m \in BOOLEAN }
    \cup { [file_path |-> f] :
             f \in {"", "one.json", "norules.json", "rulesobject.json",
                    "notes.txt", "missing.json"} }

toolImportAutoLabelingRules ==
  /\ pc = "idle" /\ calls.n < MaxCalls
  /\ \E a \in ImportArgs, writeFails \in MayFail :
       LET merge == Arg(a, "merge", FALSE)
           importData == FileContents(a.file_path)
           existingRules == IF merge THEN ruleFile ELSE <<>>
           rules == ImportRules(existingRules, importData.rules, merge)
           t == "import_auto_labeling_rules"
       IN IF a.file_path = ""
          THEN StoreReturn(t, a, <<>>, StoreError("InvalidParams"),
                           ruleFile, FALSE)
          ELSE IF importData.kind \in {"unreadable", "not_json"}
          THEN StoreReturn(t, a, <<>>, StoreError("InternalError"),
                           ruleFile, FALSE)
          ELSE IF importData.kind \in {"no_rules", "rules_not_array"}
          THEN StoreReturn(t, a, <<>>, StoreError("InvalidRequest"),
                           ruleFile, FALSE)
          ELSE IF writeFails
          THEN StoreReturn(t, a, rules, StoreError("InternalError"),
                           ruleFile, TRUE)
          ELSE StoreReturn(t, a, rules,
                           [kind |-> "ok",
                            rules_imported |-> Len(importData.rules),
                            total_rules |-> Len(rules), merge_mode |-> merge],
                           rules, FALSE)

\* the i-th rule of the rule file a behaviour starts with
StartRule(i) ==
  LET k == ((i - 1) % 3) + 1
  IN [StoredRule(<<"Work", "Todo", "Bills">>[k],
                 <<"from:alice", "has:nouserlabels", "from:bob">>[k],
                 <<"alice", "", "bob">>[k], <<>>, TRUE)
        EXCEPT !.last_run = i]

StartStores == { [i \in 1..n |-> StartRule(i)] : n \in 0..MaxStored }

NoLast == [tool |-> "none"]

InitStore ==
  /\ tool = "none"
  /\ pc = "idle"
  /\ args = NoArgs
  /\ mbox = [labels |-> {}, mail |-> <<>>]
  /\ loc = [rules |-> <<>>]
  /\ out = NoOutput
  /\ ruleFile \in StartStores
  /\ calls = [n |-> 0, now |-> MaxStored + 1, faultsLeft |-> MaxFaults,
              used |-> {}, started |-> ruleFile, before |-> ruleFile,
              last |-> NoLast]

NextStore ==
  \/ toolListAutoLabelingRules
  \/ toolAddAutoLabelingRule
  \/ toolRemoveAutoLabelingRule
  \/ toolUpdateAutoLabelingRule
  \/ toolImportAutoLabelingRules

SpecStore == InitStore /\ [][NextStore]_vars

Succeeded(t) == tool = t /\ out.kind = "ok"

\* C13: the query stored by a successful add is the query argument when one
\* is given; otherwise from:<sender_pattern>, subject:"<subject_pattern>"
\* and the parenthesised OR group of the subject_contains terms, those that
\* are present, in this order, separated by one space.
C13_AddStoresSynthesizedQuery ==
  Succeeded("add_auto_labeling_rule") =>
    LET stored == ruleFile[Len(ruleFile)]
        S == args.sender_pattern # ""
        U == args.subject_pattern # ""
        G == args.subject_contains # <<>>
        s == "from:" \o args.sender_pattern
        u == "subject:\"" \o args.subject_pattern \o "\""
        g == IF Len(args.subject_contains) = 1
             THEN "(subject:\"" \o args.subject_contains[1] \o "\")"
             ELSE "(subject:\"" \o args.subject_contains[1]
                    \o "\" OR subject:\"" \o args.subject_contains[2] \o "\")"
    IN /\ Len(args.subject_contains) <= 2
       /\ out.rule = stored
       /\ stored.query =
            IF args.query # "" THEN args.query
            ELSE CASE S /\ U /\ G -> s \o " " \o u \o " " \o g
                   [] S /\ U /\ ~G -> s \o " " \o u
                   [] S /\ ~U /\ G -> s \o " " \o g
                   [] S /\ ~U /\ ~G -> s
                   [] ~S /\ U /\ G -> u \o " " \o g
                   [] ~S /\ U /\ ~G -> u
                   [] ~S /\ ~U /\ G -> g
                   [] OTHER -> "no criteria"

C13_Witness ==
  /\ Succeeded("add_auto_labeling_rule")
  /\ args.query = "" /\ args.sender_pattern = "bob"
  /\ args.subject_pattern = "hi" /\ args.subject_contains = <<"a", "b">>
  /\ ruleFile[Len(ruleFile)].query =
       "from:bob subject:\"hi\" (subject:\"a\" OR subject:\"b\")"

Resolves(rule) ==
  \/ rule.query # "" \/ rule.sender_pattern # ""
  \/ rule.subject_pattern # "" \/ rule.subject_contains # <<>>

\* C14: when the store starts empty and only add, update and remove are
\* called, every stored rule has a non-empty query or at least one pattern.
C14_EveryRuleResolves ==
  (/\ calls.started = <<>>
   /\ calls.used \subseteq {"add_auto_labeling_rule",
                            "update_auto_labeling_rule",
                            "remove_auto_labeling_rule"}) =>
    \A i \in 1..Len(ruleFile) : Resolves(ruleFile[i])

\* C15: a successful remove of index i from n rules followed by a list
\* shows n-1 rules: those formerly at an index below i at the same index,
\* those formerly at j > i at index j-1, all with their content.
C15_RemoveShiftsDown ==
  (/\ Succeeded("list_auto_labeling_rules")
   /\ calls.last.tool = "remove_auto_labeling_rule"
   /\ calls.last.out.kind = "ok") =>
    LET B == calls.last.before
        i == calls.last.args.rule_index
    IN /\ Len(out.rules) = Len(B) - 1
       /\ Len(ruleFile) = Len(B) - 1
       /\ \A j \in 0..(Len(B) - 2) :
            LET e == out.rules[j + 1]
                old == IF j < i THEN B[j + 1] ELSE B[j + 2]
            IN /\ e.index = j
               /\ e.label_name = old.label_name
               /\ e.query = old.query
               /\ e.sender_pattern = old.sender_pattern
               /\ e.last_run = old.last_run
               /\ ruleFile[j + 1] = old

C15_Witness ==
  /\ Succeeded("list_auto_labeling_rules")
  /\ calls.last.tool = "remove_auto_labeling_rule"
  /\ calls.last.out.kind = "ok"
  /\ calls.last.args.rule_index = 1
  /\ Len(calls.last.before) = 3
  /\ Len(out.rules) = 2
  /\ out.rules[1].index = 0 /\ out.rules[1].last_run = 1
  /\ out.rules[2].index = 1 /\ out.rules[2].last_run = 3

Rejected(code) == out = [kind |-> "error", code |-> code]

IndexTools == {"remove_auto_labeling_rule", "update_auto_labeling_rule"}

\* C16: add without label_name or without any criterion is rejected with
\* InvalidParams; remove and update with a non-number or negative
\* rule_index with InvalidParams and with rule_index >= number of rules
\* with InvalidRequest; import of a file without a rules array with
\* InvalidRequest.  A call that ends in an error leaves the rule file as it
\* found it, and a list made right after shows the same rules as before.
C16_RejectedCallChangesNothing ==
  /\ out.kind = "error" => ruleFile = calls.before
  /\ (/\ tool = "add_auto_labeling_rule"
      /\ \/ args.label_name = ""
         \/ /\ args.query = "" /\ args.sender_pattern = ""
            /\ args.subject_pattern = "" /\ args.subject_contains = <<>>)
       => Rejected("InvalidParams")
  /\ (tool \in IndexTools /\ args.rule_index < 0)
       => Rejected("InvalidParams")
  /\ (tool \in IndexTools /\ args.rule_index >= Len(calls.before))
       => Rejected("InvalidRequest")
  /\ (/\ tool = "import_auto_labeling_rules"
      /\ args.file_path \in {"norules.json", "rulesobject.json"})
       => Rejected("InvalidRequest")
  /\ (/\ Succeeded("list_auto_labeling_rules")
      /\ calls.last.tool # "none"
      /\ calls.last.out.kind = "error")
       => /\ ruleFile = calls.last.before
          /\ Len(out.rules) = Len(calls.last.before)
          /\ \A j \in 1..Len(out.rules) :
               /\ out.rules[j].index = j - 1
               /\ out.rules[j].label_name = calls.last.before[j].label_name
               /\ out.rules[j].query = calls.last.before[j].query
               /\ out.rules[j].last_run = calls.last.before[j].last_run

C16_Witness ==
  /\ Succeeded("list_auto_labeling_rules")
  /\ calls.last.tool = "remove_auto_labeling_rule"
  /\ calls.last.args.rule_index = Len(calls.last.before)
  /\ calls.last.out = [kind |-> "error", code |-> "InvalidRequest"]
  /\ Len(calls.last.before) = 2
  /\ ruleFile = calls.last.before

\* C17: a successful import with merge false (or absent) makes the stored
\* list the imported list; with merge true the stored list is the previous
\* list followed by the imported list.
C17_ImportReplacesOrAppends ==
  Succeeded("import_auto_labeling_rules") =>
    LET imported == CASE args.file_path = "empty.json" -> 0
                      [] args.file_path = "one.json" -> 1
                      [] args.file_path = "two.json" -> 2
        previous == calls.before
    IN IF "merge" \in DOMAIN args /\ args.merge
       THEN /\ Len(ruleFile) = Len(previous) + imported
            /\ SubSeq(ruleFile, 1, Len(previous)) = previous
            /\ \A j \in 1..imported :
                 ruleFile[Len(previous) + j].label_name =
                   <<"News", "Lists">>[j]
            /\ out.total_rules = Len(previous) + imported
       ELSE /\ Len(ruleFile) = imported
            /\ \A j \in 1..imported :
                 ruleFile[j].label_name = <<"News", "Lists">>[j]
            /\ out.total_rules = imported

C17_Witness ==
  /\ Succeeded("import_auto_labeling_rules")
  /\ args.file_path = "two.json" /\ "merge" \in DOMAIN args /\ args.merge
  /\ Len(calls.before) = 2
  /\ Len(ruleFile) = 4
  /\ ruleFile[2].label_name = "Todo"
  /\ ruleFile[3].label_name = "News"
  /\ ruleFile[4].label_name = "Lists"

(***************************************************************************)
(* Two add_auto_labeling_rule calls in flight at once.  A handler gives    *)
(* up control at its awaits, so the handler of a second request can run    *)
(* between the load and the save of the first.                             *)
(*                                                                         *)
(* pc[p], args[p], loc[p], out[p]   the state of the call of request p     *)
(* calls.events      the loads and saves in the order they happened        *)
(***************************************************************************)
Procs == {1, 2}

RaceArgs ==
  { a \in AddArgs : /\ a.subject_pattern = "" /\ a.subject_contains = <<>>
                    /\ a.enabled }

\* mutant: the list that is saved is read again right before the write
RulesToPush_Fresh(p) == ruleFile

\* the array rules.push(newRule) is applied to: the one loaded earlier
RulesToPush(p) == loc[p].rules

\* up to the first await: the label_name check, then loadAutoLabelingRules
toolAddAutoLabelingRuleLoad(p) ==
  /\ pc[p] = "start"
  /\ IF args[p].label_name = ""
     THEN /\ pc' = [pc EXCEPT ![p] = "done"]
          /\ out' = [out EXCEPT ![p] = StoreError("InvalidParams")]
          /\ UNCHANGED <<loc, calls>>
     ELSE /\ pc' = [pc EXCEPT ![p] = "loaded"]
          /\ loc' = [loc EXCEPT ![p] = [rules |-> ruleFile]]
          /\ calls' = [calls EXCEPT !.events = Append(@, <<"load", p>>)]
          /\ UNCHANGED out
  /\ UNCHANGED <<tool, args, mbox, ruleFile>>

\* after the load: synthesis, the criteria check, push, saveAutoLabelingRules
\* and the return
toolAddAutoLabelingRuleSave(p) ==
  /\ pc[p] = "loaded"
  /\ \E writeFails \in MayFail :
       LET a == args[p]
           searchQuery == SynthesizeQuery(a.query, a.sender_pattern,
                                          a.subject_pattern,
                                          a.subject_contains)
           newRule == AddNewRule(a, searchQuery, calls.now)
           rules == Append(RulesToPush(p), newRule)
       IN IF searchQuery = ""
          THEN /\ out' = [out EXCEPT ![p] = StoreError("InvalidParams")]
               /\ UNCHANGED <<loc, calls, ruleFile>>
          ELSE IF writeFails
          THEN /\ out' = [out EXCEPT ![p] = StoreError("InternalError")]
               /\ loc' = [loc EXCEPT ![p] = [rules |-> rules]]
               /\ calls' = [calls EXCEPT !.now = @ + 1,
                                         !.faultsLeft = @ - 1]
               /\ UNCHANGED ruleFile
          ELSE /\ out' = [out EXCEPT ![p] =
                            [kind |-> "ok", index |-> Len(rules) - 1,
                             rule |-> newRule, total_rules |-> Len(rules)]]
               /\ loc' = [loc EXCEPT ![p] = [rules |-> rules]]
               /\ calls' = [calls EXCEPT !.now = @ + 1,
                                         !.events = Append(@, <<"save", p>>)]
               /\ ruleFile' = rules
  /\ pc' = [pc EXCEPT ![p] = "done"]
  /\ UNCHANGED <<tool, args, mbox>>

InitRace ==
  /\ tool = "add_auto_labeling_rule"
  /\ pc = [p \in Procs |-> "start"]
  /\ args \in [Procs -> RaceArgs]
  /\ mbox = [labels |-> {}, mail |-> <<>>]
  /\ loc = [p \in Procs |-> [rules |-> <<>>]]
  /\ out = [p \in Procs |-> NoOutput]
  /\ ruleFile \in StartStores
  /\ calls = [now |-> MaxStored + 1, faultsLeft |-> MaxFaults,
              started |-> ruleFile, events |-> <<>>]

NextRace ==
  \/ \E p \in Procs : toolAddAutoLabelingRuleLoad(p)
  \/ \E p \in Procs : toolAddAutoLabelingRuleSave(p)

SpecRace == InitRace /\ [][NextRace]_vars

\* both calls loaded the rule file before either saved, and both saved
Overlapped ==
  /\ Len(calls.events) = 4
  /\ calls.events[1][1] = "load" /\ calls.events[2][1] = "load"
  /\ calls.events[3][1] = "save" /\ calls.events[4][1] = "save"

\* C20: when both add calls load the rule file before either saves and
\* both writes go through, both calls report success with index n, and the
\* rule file is the initial list followed by the rule of the later save
\* only: the rule of the earlier save is not in it.
C20_LastWriterWins ==
  Overlapped =>
    LET earlier == calls.events[3][2]
        later == calls.events[4][2]
    IN /\ earlier # later
       /\ \A p \in Procs :
            /\ out[p].kind = "ok"
            /\ out[p].index = Len(calls.started)
            /\ out[p].total_rules = Len(calls.started) + 1
       /\ out[earlier].rule # out[later].rule
       /\ ruleFile = Append(calls.started, out[later].rule)
       /\ \A i \in 1..Len(ruleFile) : ruleFile[i] # out[earlier].rule

C20_Witness ==
  /\ Overlapped
  /\ calls.events = <<(<<"load", 1>>), (<<"load", 2>>),
                      (<<"save", 2>>), (<<"save", 1>>)>>
  /\ Len(calls.started) = 1
  /\ out[1].kind = "ok" /\ out[2].kind = "ok"
  /\ Len(ruleFile) = 2
  /\ ruleFile[2] = out[1].rule

(***************************************************************************)
(* Further properties of one run of run_auto_labeling_rules                *)
(***************************************************************************)
\* C21: a step of the run leaves the number and order of the stored rules
\* and every field but last_run as they are, and changes last_run only of
\* the rule whose chunks were all applied in this non-dry run and which is
\* being saved; every other stored rule, those recorded in errors included,
\* keeps its last_run.
C21_OnlyLastRunOfLabeledRule ==
  [][ /\ Len(ruleFile') = Len(ruleFile)
      /\ \A i \in 1..Len(ruleFile) :
           IF /\ pc = "save" /\ ~args.dry_run
              /\ i = loc.enabledRules[loc.ei]
           THEN ruleFile'[i] =
                  [ruleFile[i] EXCEPT !.last_run = ruleFile'[i].last_run]
           ELSE ruleFile'[i] = ruleFile[i] ]_vars

(***************************************************************************)
(* A run of run_auto_labeling_rules while other requests are handled: the  *)
(* handler of another add_auto_labeling_rule call runs to its end at one   *)
(* of the awaits of the run.                                               *)
(***************************************************************************)
MaxOthers == 1       \* other calls that complete during the run

OtherAddArgs ==
  [label_name |-> "News", query |-> "from:carol", sender_pattern |-> "",
   subject_pattern |-> "", subject_contains |-> <<>>, enabled |-> TRUE]

\* another request's toolAddAutoLabelingRule from its load to its save
OtherAddAutoLabelingRule ==
  /\ tool = "run_auto_labeling_rules"
  /\ pc \in {"label", "page", "found", "apply", "save"}
  /\ Len(calls.others) < MaxOthers
  /\ LET a == OtherAddArgs
         searchQuery == SynthesizeQuery(a.query, a.sender_pattern,
                                        a.subject_pattern, a.subject_contains)
         newRule == AddNewRule(a, searchQuery, calls.now)
     IN /\ ruleFile' = Append(ruleFile, newRule)
        /\ calls' = [calls EXCEPT !.now = @ + 1,
                                  !.others = Append(@, newRule)]
  /\ UNCHANGED <<tool, pc, args, mbox, loc, out>>

InitRunRace ==
  /\ tool = "run_auto_labeling_rules"
  /\ pc = "start"
  /\ args \in [dry_run : BOOLEAN, max_per_rule : {100},
               batch_size : {2}, max_batches : {1, 2}]
  /\ \E n \in 0..MaxMail :
       mbox = [labels |-> {"Work"}, mail |-> [i \in 1..n |-> {}]]
  /\ loc = NoRunLocals
  /\ out = NoOutput
  /\ calls = RunCalls(MaxFaults, 1, NoPrev)
  /\ ruleFile \in RuleFiles

NextRunRace ==
  \/ toolRunAutoLabelingRules
  \/ toolRunAutoLabelingRulesLabel
  \/ toolRunAutoLabelingRulesPage
  \/ toolRunAutoLabelingRulesFound
  \/ toolRunAutoLabelingRulesApply
  \/ toolRunAutoLabelingRulesSave
  \/ toolRunAutoLabelingRulesReturn
  \/ OtherAddAutoLabelingRule

SpecRunRace == InitRunRace /\ [][NextRunRace]_vars

\* C22: a rule that another call stored after the run started is in the
\* rule file at every later moment, the moments after the run has written
\* last_run included.
C22_WriteKeepsOtherCallsRules ==
  \A j \in 1..Len(calls.others) :
    \E i \in 1..Len(ruleFile) : ruleFile[i] = calls.others[j]

(***************************************************************************)
(* One run of run_auto_labeling_rules over a mailbox large enough for the  *)
(* page size cap of 500 and the chunk size of 1000 to take effect.         *)
(***************************************************************************)
BigMail == 1100      \* messages in the large mailbox

BigRules ==
  { StoredRule("Todo", "has:nouserlabels", "", <<>>, TRUE),
    StoredRule("Work", "from:alice", "alice", <<>>, TRUE) }

BigRuleFiles == UNION { [1..n -> BigRules] : n \in 0..MaxRules }

InitRunBig ==
  /\ tool = "run_auto_labeling_rules"
  /\ pc = "start"
  /\ args \in [dry_run : BOOLEAN, max_per_rule : {100},
               batch_size : {600}, max_batches : {2, 3}]
  /\ \E n \in {0, BigMail} :
       mbox = [labels |-> {"Work"}, mail |-> [i \in 1..n |-> {}]]
  /\ loc = NoRunLocals
  /\ out = NoOutput
  /\ calls = RunCalls(MaxFaults, 1, NoPrev)
  /\ ruleFile \in BigRuleFiles

NextRunBig ==
  \/ toolRunAutoLabelingRules
  \/ toolRunAutoLabelingRulesLabel
  \/ toolRunAutoLabelingRulesPage
  \/ toolRunAutoLabelingRulesFound
  \/ toolRunAutoLabelingRulesApply
  \/ toolRunAutoLabelingRulesSave
  \/ toolRunAutoLabelingRulesReturn

SpecRunBig == InitRunBig /\ [][NextRunBig]_vars

\* the ids the messages.list calls of position k returned, in order
RECURSIVE Accumulated(_)
Accumulated(lists) ==
  IF lists = <<>> THEN <<>>
  ELSE Head(lists).messages \o Accumulated(Tail(lists))

\* the ids passed to the batchModify calls, in order
RECURSIVE Chunked(_)
Chunked(chunks) ==
  IF chunks = <<>> THEN <<>>
  ELSE Head(chunks).ids \o Chunked(Tail(chunks))

\* the index in results of the entry of position k, when k did not fail
ResultIndex(k) ==
  k - Cardinality({ f \in 1..Len(calls.failedAt) : calls.failedAt[f] < k })

\* C23: per rule at most max_batches messages.list calls are made, each
\* with maxResults = min(batch_size, 500), the first without a page token
\* and each later one with the token the call before returned; at most
\* max_batches * min(batch_size, 500) ids are accumulated; once a
\* batchModify call was made for the rule, no page is fetched for it.
C23_PagingIsBounded ==
  /\ [](\A k \in 1..MaxRules :
          LET L == calls.lists[k]
              size == IF args.batch_size < 500 THEN args.batch_size ELSE 500
          IN /\ Len(L) <= args.max_batches
             /\ \A j \in 1..Len(L) :
                  /\ L[j].maxResults = size
                  /\ Len(L[j].messages) <= size
                  /\ L[j].pageToken =
                       IF j = 1 THEN NoToken ELSE L[j - 1].nextPageToken
                  /\ j > 1 => (L[j - 1].ok /\ L[j - 1].nextPageToken # NoToken)
             /\ Len(Accumulated(L)) <= args.max_batches * size)
  /\ [][\A k \in 1..MaxRules :
          calls.chunks[k] # <<>> => calls.lists'[k] = calls.lists[k]]_vars

C23_Witness ==
  /\ RunCompleted
  /\ args.batch_size = 600 /\ args.max_batches = 2
  /\ Len(calls.lists[1]) = 2
  /\ calls.lists[1][2].pageToken = 500
  /\ calls.lists[1][2].nextPageToken # NoToken
  /\ Len(Accumulated(calls.lists[1])) = 1000
  /\ Len(calls.chunks[1]) = 1

\* C24: every batchModify call of a rule carries at most 1000 ids; the
\* chunks in call order are consecutive pieces of the accumulated id list,
\* and when the rule ends as labeled they make up all of it, each id once,
\* and emails_labeled equals emails_found.
C24_ChunksPartitionIds ==
  \A k \in 1..MaxRules :
    LET ids == Accumulated(calls.lists[k])
        done == Chunked(calls.chunks[k])
    IN /\ \A j \in 1..Len(calls.chunks[k]) :
            /\ Len(calls.chunks[k][j].ids) <= 1000
            /\ calls.chunks[k][j].ids # <<>>
       /\ Len(done) <= Len(ids)
       /\ done = SubSeq(ids, 1, Len(done))
       /\ \A a \in 1..(Len(done) - 1) : done[a] < done[a + 1]
       /\ (RunCompleted /\ calls.status[k] = "labeled") =>
            /\ done = ids
            /\ \A j \in 1..Len(calls.chunks[k]) : calls.chunks[k][j].ok
            /\ out.results[ResultIndex(k)].emails_labeled = Len(ids)
            /\ out.results[ResultIndex(k)].emails_found = Len(ids)

C24_Witness ==
  /\ RunCompleted
  /\ calls.status[1] = "labeled"
  /\ Len(calls.chunks[1]) = 2
  /\ Len(calls.chunks[1][1].ids) = 1000
  /\ Len(calls.chunks[1][2].ids) = 100
  /\ out.results[1].emails_labeled = 1100

\* C25: labels.create returns a label only in the label step of a rule
\* whose label_name is, letter for letter, the name of no label of the
\* mailbox at that moment, and whenever that step finds no such label and
\* its calls return, the label is created; so no name is created twice in
\* a run, even when several enabled rules share it.
C25_LabelCreatedOncePerName ==
  /\ [](\A a, b \in 1..Len(calls.created) :
          calls.created[a] = calls.created[b] => a = b)
  /\ [][calls.created' # calls.created =>
          /\ pc = "label"
          /\ CurrentRule.label_name \notin mbox.labels
          /\ CurrentRule.label_name \in mbox'.labels
          /\ calls.created' = Append(calls.created, CurrentRule.label_name)]_vars
  /\ [][(/\ pc = "label"
         /\ CurrentRule.label_name \notin mbox.labels
         /\ calls.failedAt' = calls.failedAt) =>
          calls.created' = Append(calls.created, CurrentRule.label_name)]_vars

C25_Witness ==
  /\ RunCompleted
  /\ Len(loc.enabledRules) = 2
  /\ RuleAt(1).label_name = "Work" /\ RuleAt(2).label_name = "Work"
  /\ calls.failedAt = <<>>
  /\ calls.created = <<"Work">>
  /\ mbox.labels = {"work", "Work"}

\* C26: when the run returns its results, every enabled rule has exactly
\* one entry, in results or in errors: processed + failed = enabled_rules.
C26_OneEntryPerEnabledRule ==
  RunCompleted =>
    /\ out.processed + out.failed = out.enabled_rules
    /\ out.processed = Len(out.results)
    /\ out.failed = Len(out.errors)
    /\ out.enabled_rules = Cardinality(NotDisabled(loc.rules))
    /\ \A k \in 1..out.enabled_rules :
         Includes(calls.failedAt, k) <=> calls.status[k] = ""
    /\ Len(calls.failedAt) = out.failed

C26_Witness ==
  /\ RunCompleted
  /\ out.enabled_rules = 2
  /\ out.processed = 1 /\ out.failed = 1
  /\ out.results[1].status = "no_emails_found"
  /\ calls.failedAt = <<1>>

\* the messages.list calls of a rule that returned at least one message
NonEmptyPages(lists) ==
  Cardinality({ j \in 1..Len(lists) : lists[j].messages # <<>> })

\* C27: the batches_processed reported for a rule is the number of
\* non-empty pages fetched for it and is at most max_batches.
C27_BatchesProcessedCountsPages ==
  RunCompleted =>
    \A k \in 1..Len(loc.enabledRules) :
      (/\ ~Includes(calls.failedAt, k)
       /\ "batches_processed" \in DOMAIN out.results[ResultIndex(k)]) =>
        /\ out.results[ResultIndex(k)].batches_processed =
             NonEmptyPages(calls.lists[k])
        /\ out.results[ResultIndex(k)].batches_processed <= args.max_batches

\* C29: for a rule recorded in errors no batchModify call of this run
\* returned: none of its messages was labeled.
C29_FailedRuleLabeledNothing ==
  RunCompleted =>
    \A f \in 1..Len(calls.failedAt) :
      \A j \in 1..Len(calls.chunks[calls.failedAt[f]]) :
        ~calls.chunks[calls.failedAt[f]][j].ok

(***************************************************************************)
(* start_oauth and its local redirect listener.                            *)
(*                                                                         *)
(* loc.oauthState    this.oauthState: server (0 is null, else the number   *)
(*                   of the call that created the listener), pending and   *)
(*                   redirectPort                                          *)
(* loc.listeners     the http servers that are listening, as records of    *)
(*                   the creating call and the port                        *)
(* loc.timers        the scheduled setTimeout callbacks, by listener, in   *)
(*                   the order they will fire                              *)
(* loc.token         whether token.json was written                        *)
(* pc                "idle", or "listen" while a start_oauth call awaits   *)
(*                   the outcome of server.listen                          *)
(* calls.n           start_oauth calls so far                              *)
(* calls.requests    http requests the listeners received so far           *)
(* calls.faultsLeft  binds that may still fail because another process     *)
(*                   holds the port                                        *)
(***************************************************************************)
MaxStarts == 3       \* start_oauth calls in one behaviour
MaxRequests == 2     \* http requests to the redirect listeners

DefaultPort == 53682
OtherPort == 8080

NoServer == 0

InitOAuth ==
  /\ tool = "start_oauth"
  /\ pc = "idle"
  /\ args = NoArgs
  /\ mbox = [labels |-> {}, mail |-> <<>>]
  /\ loc = [oauthState |-> [server |-> NoServer, pending |-> FALSE,
                            redirectPort |-> DefaultPort],
            listeners |-> {}, timers |-> <<>>, token |-> FALSE]
  /\ out = NoOutput
  /\ calls = [n |-> 0, requests |-> 0, faultsLeft |-> MaxFaults]
  /\ ruleFile = <<>>

\* toolStartOAuth up to the await of server.listen: the port, the
\* credentials, the pending check and pending = true
toolStartOAuth ==
  /\ tool = "start_oauth" /\ pc = "idle"
  /\ calls.n < MaxStarts
  /\ \E a \in {NoArgs, [port |-> DefaultPort], [port |-> OtherPort]},
        credentialsMissing \in BOOLEAN :
       LET port == Arg(a, "port", loc.oauthState.redirectPort)
           l1 == [loc EXCEPT !.oauthState.redirectPort = port]
       IN /\ args' = a
          /\ calls' = [calls EXCEPT !.n = @ + 1]
          /\ IF credentialsMissing
             THEN /\ loc' = l1
                  /\ out' = [kind |-> "error", code |-> "InvalidRequest",
                             message |-> "Missing Google OAuth credentials"]
                  /\ pc' = "idle"
             ELSE IF loc.oauthState.pending
             THEN /\ loc' = l1
                  /\ out' = [kind |-> "error", code |-> "InvalidRequest",
                             message |-> "OAuth flow already in progress"]
                  /\ pc' = "idle"
             ELSE /\ loc' = [l1 EXCEPT !.oauthState.pending = TRUE]
                  /\ out' = NoOutput
                  /\ pc' = "listen"
  /\ UNCHANGED <<tool, mbox, ruleFile>>

\* the promise around server.listen settles: 'error' rejects it, the
\* listening callback resolves it
toolStartOAuthListen ==
  /\ tool = "start_oauth" /\ pc = "listen"
  /\ LET port == loc.oauthState.redirectPort
         inUse == \E l \in loc.listeners : l.port = port
     IN \E bindFails \in (IF inUse THEN {TRUE} ELSE MayFail) :
          IF bindFails
          THEN /\ out' = [kind |-> "error", code |-> "InternalError",
                          message |-> "listen EADDRINUSE"]
               /\ calls' = [calls EXCEPT
                              !.faultsLeft = IF inUse THEN @ ELSE @ - 1]
               /\ UNCHANGED loc
          ELSE /\ out' = [kind |-> "ok", port |-> port]
               /\ loc' = [loc EXCEPT
                            !.listeners = @ \cup {[id |-> calls.n,
                                                   port |-> port]},
                            !.oauthState.server = calls.n]
               /\ UNCHANGED calls
  /\ pc' = "idle"
  /\ UNCHANGED <<tool, args, mbox, ruleFile>>

\* the request listener of http.createServer: whatever the request, its
\* finally block clears pending and schedules the close
OAuthRequest ==
  /\ tool = "start_oauth"
  /\ calls.requests < MaxRequests
  /\ \E l \in loc.listeners,
        req \in {"not_found", "missing_code", "code", "bad_code"} :
       /\ loc' = [loc EXCEPT !.oauthState.pending = FALSE,
                             !.timers = Append(@, l.id),
                             !.token = IF req = "code" THEN TRUE ELSE @]
       /\ calls' = [calls EXCEPT !.requests = @ + 1]
  /\ UNCHANGED <<tool, pc, args, mbox, out, ruleFile>>

\* the setTimeout callback: server.close() and oauthState.server = null
OAuthCloseTimer ==
  /\ tool = "start_oauth"
  /\ loc.timers # <<>>
  /\ loc' = [loc EXCEPT
               !.listeners = { l \in @ : l.id # Head(loc.timers) },
               !.timers = Tail(@),
               !.oauthState.server = NoServer]
  /\ UNCHANGED <<tool, pc, args, mbox, out, calls, ruleFile>>

NextOAuth ==
  \/ toolStartOAuth
  \/ toolStartOAuthListen
  \/ OAuthRequest
  \/ OAuthCloseTimer

SpecOAuth == InitOAuth /\ [][NextOAuth]_vars

\* C30: when no start_oauth call is waiting for its listener, pending is
\* true only if a redirect listener is listening; in particular it is false
\* after a start_oauth whose listener could not bind its port.
C30_PendingOnlyWhileListening ==
  (pc = "idle" /\ loc.oauthState.pending) => loc.listeners # {}

(***************************************************************************)
(* A rule added without a query argument, then updated through its         *)
(* pattern fields only.                                                    *)
(***************************************************************************)
MaxUpdates == 2      \* update calls after the add

PatternAddArgs ==
  { a \in AddArgs : a.label_name # "" /\ a.query = "" /\ a.enabled }

PatternUpdateArgs ==
  { [rule_index |-> 0] @@ f :
      f \in { [sender_pattern |-> ""], [sender_pattern |-> "dave"],
              [subject_pattern |-> ""], [subject_pattern |-> "hi"],
              [subject_contains |-> <<>>], [subject_contains |-> <<"a">>],
              [sender_pattern |-> "dave", subject_pattern |-> "hi"] } }

toolAddAutoLabelingRulePatterns ==
  /\ pc = "idle" /\ calls.n = 0
  /\ \E a \in PatternAddArgs, writeFails \in MayFail : AddCall(a, writeFails)

toolUpdateAutoLabelingRulePatterns ==
  /\ pc = "idle" /\ calls.n > 0 /\ calls.n < 1 + MaxUpdates
  /\ \E a \in PatternUpdateArgs, writeFails \in MayFail :
       UpdateCall(a, writeFails)

InitPatterns ==
  /\ tool = "none"
  /\ pc = "idle"
  /\ args = NoArgs
  /\ mbox = [labels |-> {}, mail |-> <<>>]
  /\ loc = [rules |-> <<>>]
  /\ out = NoOutput
  /\ ruleFile = <<>>
  /\ calls = [n |-> 0, now |-> 1, faultsLeft |-> MaxFaults,
              used |-> {}, started |-> <<>>, before |-> <<>>,
              last |-> NoLast]

NextPatterns ==
  \/ toolAddAutoLabelingRulePatterns
  \/ toolUpdateAutoLabelingRulePatterns

SpecPatterns == InitPatterns /\ [][NextPatterns]_vars

\* C28: the stored query of the rule is the query synthesized from the
\* pattern fields the rule has now.
C28_QueryFollowsPatterns ==
  \A i \in 1..Len(ruleFile) :
    ruleFile[i].query =
      SynthesizeQuery("", ruleFile[i].sender_pattern,
                      ruleFile[i].subject_pattern,
                      ruleFile[i].subject_contains)

====
